---- MODULE Spec2Model ----
(***************************************************************************)
(* Model of hurdy-gurdy's Vulkan layer (src/src/hg_vulkan_engine.cpp):     *)
(* the process-wide Engine (device context) and the Window frame pacing    *)
(* state machine, together with the part of the Vulkan queue the frame     *)
(* loop synchronises with (fences, binary semaphores, command buffers,     *)
(* queue submissions and presentation requests); the selection of the      *)
(* physical device and queue family; the swapchain replaced by             *)
(* Window::resize; and the bytes moved by GpuBuffer::write.                *)
(***************************************************************************)
EXTENDS Integers, Sequences, FiniteSets, TLC

\* Number of frame slots (frames in flight); declared in hg_vulkan_engine.h.
MaxFramesInFlight == 2

\* Number of images the driver created for the swapchain.
NumImages == 3

Slots == 0 .. (MaxFramesInFlight - 1)
Images == 0 .. (NumImages - 1)
NoImage == NumImages
NoSem == MaxFramesInFlight

\* Longest list of physical devices the instance enumerates.
MaxGpus == 2

\* Longest list of queue families a physical device reports.
MaxFamilies == 3

\* Largest width and height the surface reports, and the most swapchain objects
\* the device holds at once.
MaxWidth == 2
MaxHeight == 1
MaxSwapchains == 3

\* Size in bytes of the GpuBuffer written to.
BufferSize == 3

VARIABLES
    aborted,                \* a fatal ERROR/ASSERT terminated the process
    ret,                    \* the last call made on the API and what it returned
    s_engine_initialized,   \* static bool s_engine_initialized
    liveEngines,            \* engines returned by create() and not yet destroyed
    windowLive,             \* a Window was created and not destroyed
    m_recording,
    m_current_frame_index,
    m_current_image_index,
    fence,                  \* m_frame_finished_fences[i] is signaled
    cmd,                    \* lifecycle state of m_command_buffers[i]
    imgAvail,               \* m_image_available_semaphores[i]
    ready,                  \* m_ready_to_present_semaphores[i] is signaled
    imageState,             \* per swapchain image: "free" or "acquired"
    gpuQueue,               \* submitted command buffers, oldest first
    presentQueue,           \* presentation requests, oldest first
    hist,                   \* frame index before each of the latest consecutive successful cycles
    gpus,                   \* the physical devices of the machine, in enumeration order
    queue_families,         \* gpu.getQueueFamilyProperties() of the device under inspection
    selection,              \* what find_gpu / find_queue_family returned last
    m_swapchain,            \* Window::m_swapchain (0 is the null handle)
    m_extent,               \* Window::m_extent
    m_image_count,          \* Window::m_image_count
    m_swapchain_images,     \* the swapchain whose images Window::m_swapchain_images holds
    swapchains,             \* swapchain objects created and not destroyed
    currentExtent,          \* surface_capabilities.currentExtent of the window's surface
    memory_type,            \* GpuBuffer::memory_type
    buffer,                 \* the bytes of the GpuBuffer's allocation
    stagingBuffers,         \* temporary staging buffers created and not destroyed
    lastWrite,              \* arguments of the last write and the staging buffers it created / destroyed
    image,                  \* the GpuImage under consideration: what it was created with, and per mip level its layout and contents
    lastImageCall,          \* arguments of the last operation on the image
    recorded,               \* the commands the last operation recorded into its single-time command buffer
    single_time,            \* progress of begin/end_single_time_commands and of the work they submit
    surface_capabilities,   \* what getSurfaceCapabilitiesKHR reports about the image count
    swapchain_info          \* the vk::SwapchainCreateInfoKHR resize passes to createSwapchainKHR

engineVars == <<s_engine_initialized, liveEngines>>
frameVars == <<m_recording, m_current_frame_index, m_current_image_index>>
syncVars == <<fence, cmd, imgAvail, ready>>
deviceVars == <<imageState, gpuQueue, presentQueue>>
windowVars == <<windowLive, frameVars, syncVars, deviceVars, hist>>
selectVars == <<gpus, queue_families, selection>>
swapVars == <<m_swapchain, m_extent, m_image_count, m_swapchain_images, swapchains, currentExtent>>
bufVars == <<memory_type, buffer, stagingBuffers, lastWrite>>
imgVars == <<image, lastImageCall, recorded, single_time, surface_capabilities, swapchain_info>>
vars == <<aborted, ret, engineVars, windowVars, selectVars, swapVars, bufVars, imgVars>>

----------------------------------------------------------------------------
\* Results the Vulkan calls of the frame loop can report.
WaitResults == {"Success", "Timeout", "OutOfMemory"}
CallResults == {"Success", "OutOfMemory"}
AcquireResults == {"Success", "Suboptimal", "OutOfDate", "SurfaceLost"}
PresentResults == {"Success", "Suboptimal", "OutOfDate", "SurfaceLost"}
NotCalled == "NotCalled"

\* The driver and library calls of Engine::create that can fail, in the order the
\* code makes them.
CreateSteps == <<"glfwInit", "init_instance", "createDebugUtilsMessenger",
                 "enumeratePhysicalDevices", "enumerateDeviceExtensionProperties",
                 "init_device", "getQueue", "init_allocator",
                 "createCommandPool", "createTransientCommandPool">>

CreateErr(step) ==
    CASE step = "glfwInit" -> "CouldNotInitializeGlfw"
      [] step = "init_instance" -> "CouldNotCreateVkInstance"
      [] step = "createDebugUtilsMessenger" -> "CouldNotCreateVkDebugUtilsMessenger"
      [] step = "enumeratePhysicalDevices" -> "VkPhysicalDevicesUnavailable"
      [] step = "enumerateDeviceExtensionProperties" -> "VulkanFailure"
      [] step = "init_device" -> "CouldNotCreateVkDevice"
      [] step = "getQueue" -> "VkQueueUnavailable"
      [] step = "init_allocator" -> "CouldNotCreateVmaAllocator"
      [] step = "createCommandPool" -> "CouldNotCreateVkCommandPool"
      [] step = "createTransientCommandPool" -> "CouldNotCreateVkCommandPool"

NoStep == "none"
CreateOutcomes == {NoStep} \cup {CreateSteps[k] : k \in 1 .. Len(CreateSteps)}

Ret(op, result, step, vk) == [op |-> op, result |-> result, step |-> step, vk |-> vk]

\* ERROR(msg) / a failed ASSERT(cond): fatal, the process ends and nothing returns.
Fatal(op, why) ==
    /\ aborted' = TRUE
    /\ ret' = Ret(op, "Fatal", why, "none")

----------------------------------------------------------------------------
\* Engine: selection of the physical device and of the queue family

\* constexpr std::array DeviceExtensions
DeviceExtensions == {"VK_KHR_swapchain", "VK_EXT_shader_object", "VK_EXT_descriptor_indexing"}

\* Extension names a driver may report.
ExtensionNames == DeviceExtensions \cup {"VK_KHR_maintenance1"}

\* Capability flag sets of a queue family.
QueueFlags == {{"transfer"}, {"graphics"}, {"compute"}, {"graphics", "compute"}}

RECURSIVE SeqsUpTo(_, _)
SeqsUpTo(S, n) ==
    IF n = 0 THEN {<<>>}
    ELSE LET shorter == SeqsUpTo(S, n - 1)
         IN shorter \cup {Append(q, x) : q \in {r \in shorter : Len(r) = n - 1}, x \in S}

\* A physical device as find_gpu sees it: two features, the reported extension
\* names, the queue families.
PhysicalDevices ==
    [sampleRateShading : BOOLEAN, samplerAnisotropy : BOOLEAN,
     extensions : SUBSET ExtensionNames, families : {<<f>> : f \in QueueFlags}]

Ok(v) == [err |-> "Ok", value |-> v]
Error(e) == [err |-> e, value |-> 0]
NotSelected == [err |-> "none", value |-> 0]

\* strcmp(a, b): zero exactly when the two strings are equal.
strcmp(a, b) == IF a = b THEN 0 ELSE 1

IsGraphicsAndCompute(flags) == {"graphics", "compute"} \subseteq flags

\* static_cast<bool>(family.queueFlags & (eGraphics | eCompute))
FamilyAccepted(flags) == flags \cap {"graphics", "compute"} # {}

Min(S) == CHOOSE x \in S : \A y \in S : x <= y

\* find_queue_family: the index of the first accepted family.
find_queue_family(families) ==
    LET accepted == {k \in 1 .. Len(families) : FamilyAccepted(families[k])}
    IN IF accepted = {}
       THEN Error("VkQueueFamilyUnavailable")
       ELSE Ok(Min(accepted) - 1)

HasAllExtensions(gpu) == DeviceExtensions \subseteq gpu.extensions

\* all_of(DeviceExtensions, any_of(extensions, strcmp(required, extensionName)))
ExtensionsAccepted(gpu) ==
    \A required \in DeviceExtensions :
        \E extension \in gpu.extensions : strcmp(required, extension) # 0

FeaturesAccepted(gpu) == gpu.sampleRateShading /\ gpu.samplerAnisotropy

QueueFamilyMissing_Ignored(gpu) == FALSE

\* if (find_queue_family(gpu).has_err()) continue;
QueueFamilyMissing(gpu) == find_queue_family(gpu.families).err # "Ok"

\* The loop of find_gpu from device k on; failAt names the driver call that fails.
RECURSIVE find_gpu_from(_, _, _)
find_gpu_from(devices, k, failAt) ==
    IF k > Len(devices) THEN Error("VkPhysicalDevicesUnsuitable")
    ELSE IF ~FeaturesAccepted(devices[k]) THEN find_gpu_from(devices, k + 1, failAt)
    ELSE IF failAt = "enumerateDeviceExtensionProperties" THEN Error(CreateErr(failAt))
    ELSE IF ~ExtensionsAccepted(devices[k]) THEN find_gpu_from(devices, k + 1, failAt)
    ELSE IF QueueFamilyMissing(devices[k]) THEN find_gpu_from(devices, k + 1, failAt)
    ELSE Ok(k)

find_gpu(devices, failAt) ==
    IF failAt = "enumeratePhysicalDevices" THEN Error(CreateErr(failAt))
    ELSE find_gpu_from(devices, 1, failAt)

----------------------------------------------------------------------------
\* Engine

EngineAlreadyInitialized_Unchecked == FALSE

\* if (s_engine_initialized) ERROR("Cannot initialize more than one engine");
EngineAlreadyInitialized == s_engine_initialized

EngineNotInitialized_Unchecked == FALSE

\* if (!s_engine_initialized) ERROR("Cannot destroy uninitialized engine");
EngineNotInitialized == ~s_engine_initialized

BeforeFindGpu == {"glfwInit", "init_instance", "createDebugUtilsMessenger"}

\* What Engine::create returns on the machine's devices when the call failAt fails:
\* the error and the step it comes from, or "Ok".
CreateResult(failAt) ==
    LET gpu == find_gpu(gpus, failAt)
        queue_family == find_queue_family(gpus[gpu.value].families)
    IN IF failAt \in BeforeFindGpu THEN [err |-> CreateErr(failAt), step |-> failAt]
       ELSE IF gpu.err # "Ok" THEN [err |-> gpu.err, step |-> "find_gpu"]
       ELSE IF queue_family.err # "Ok" THEN [err |-> queue_family.err, step |-> "find_queue_family"]
       ELSE IF failAt # NoStep THEN [err |-> CreateErr(failAt), step |-> failAt]
       ELSE [err |-> "Ok", step |-> NoStep]

Engine_create(failAt) ==
    /\ ~aborted
    /\ UNCHANGED <<selectVars, swapVars, bufVars, imgVars>>
    /\ IF EngineAlreadyInitialized
       THEN /\ Fatal("Engine::create", "Cannot initialize more than one engine")
            /\ UNCHANGED <<engineVars, windowVars>>
       ELSE IF CreateResult(failAt).err # "Ok"
       THEN /\ ret' = Ret("Engine::create", CreateResult(failAt).err, CreateResult(failAt).step, "failure")
            /\ UNCHANGED <<aborted, engineVars, windowVars>>
       ELSE /\ s_engine_initialized' = TRUE
            /\ liveEngines' = liveEngines + 1
            /\ ret' = Ret("Engine::create", "Ok", NoStep, "Success")
            /\ UNCHANGED <<aborted, windowVars>>

Engine_destroy ==
    /\ ~aborted
    /\ UNCHANGED <<selectVars, swapVars, bufVars, imgVars>>
    /\ ~windowLive
    /\ IF EngineNotInitialized
       THEN /\ Fatal("Engine::destroy", "Cannot destroy uninitialized engine")
            /\ UNCHANGED <<engineVars, windowVars>>
       ELSE /\ s_engine_initialized' = FALSE
            /\ liveEngines' = liveEngines - 1
            /\ ret' = Ret("Engine::destroy", "Ok", NoStep, "Success")
            /\ UNCHANGED <<aborted, windowVars>>

----------------------------------------------------------------------------
\* Window: accessors of the current frame slot (hg_vulkan_engine.h)

current_cmd == m_current_frame_index
is_frame_finished == m_current_frame_index
is_image_available == m_current_frame_index
is_ready_to_present == m_current_frame_index

Unsignaled == [state |-> "unsignaled", image |-> NoImage]

FreshWindowSync_Unsignaled ==
    /\ fence' = [i \in Slots |-> FALSE]
    /\ cmd' = [i \in Slots |-> "initial"]
    /\ imgAvail' = [i \in Slots |-> Unsignaled]
    /\ ready' = [i \in Slots |-> FALSE]

\* createFence({.flags = eSignaled}) for every slot, createSemaphore({}) twice for
\* every slot, allocateCommandBuffers.
FreshWindowSync ==
    /\ fence' = [i \in Slots |-> TRUE]
    /\ cmd' = [i \in Slots |-> "initial"]
    /\ imgAvail' = [i \in Slots |-> Unsignaled]
    /\ ready' = [i \in Slots |-> FALSE]

FreshWindowState ==
    /\ m_recording' = FALSE
    /\ m_current_frame_index' = 0
    /\ m_current_image_index' = 0
    /\ imageState' = [k \in Images |-> "free"]
    /\ gpuQueue' = <<>>
    /\ presentQueue' = <<>>
    /\ hist' = <<>>

\* The swapchain the resize inside a successful Window::create installs.
FirstSwapchain ==
    /\ m_swapchain' = 1
    /\ m_extent' = currentExtent
    /\ m_image_count' = NumImages
    /\ m_swapchain_images' = 1
    /\ swapchains' = swapchains \cup {1}
    /\ UNCHANGED currentExtent

\* engine.device.destroySwapchainKHR(m_swapchain) of Window::destroy.
SwapchainGone ==
    /\ m_swapchain' = 0
    /\ m_extent' = <<0, 0>>
    /\ m_image_count' = 0
    /\ m_swapchain_images' = 0
    /\ swapchains' = swapchains \ {m_swapchain}
    /\ UNCHANGED currentExtent

\* Window::create: after the initial resize, N command buffers are allocated and
\* N fences are created in the signaled state, 2N semaphores unsignaled.
Window_create(ok) ==
    /\ ~aborted
    /\ UNCHANGED <<selectVars, bufVars, imgVars>>
    /\ liveEngines > 0
    /\ ~windowLive
    /\ IF ok
       THEN /\ windowLive' = TRUE
            /\ FreshWindowSync
            /\ FreshWindowState
            /\ FirstSwapchain
            /\ ret' = Ret("Window::create", "Ok", NoStep, "Success")
       ELSE /\ ret' = Ret("Window::create", "Err", "create", "failure")
            /\ UNCHANGED <<windowVars, swapVars>>
    /\ UNCHANGED <<aborted, engineVars>>

\* Window::destroy; the caller idles the device first (demo/main.cpp).
Window_destroy ==
    /\ ~aborted
    /\ UNCHANGED <<selectVars, bufVars, imgVars>>
    /\ SwapchainGone
    /\ windowLive
    /\ ~m_recording
    /\ gpuQueue = <<>>
    /\ presentQueue = <<>>
    /\ windowLive' = FALSE
    /\ FreshWindowSync
    /\ FreshWindowState
    /\ ret' = Ret("Window::destroy", "Ok", NoStep, "Success")
    /\ UNCHANGED <<aborted, engineVars>>

----------------------------------------------------------------------------
\* Window::resize

Extents == (0 .. MaxWidth) \X (0 .. MaxHeight)

ZeroExtent_Ignored(extent) == FALSE

\* if (currentExtent.width <= 0 || currentExtent.height <= 0) return Err::InvalidWindowSize;
ZeroExtent(extent) == extent[1] <= 0 \/ extent[2] <= 0

\* engine.queue.waitIdle() returns success once nothing submitted is unfinished.
waitIdle(w) == w = "Success" => (gpuQueue = <<>> /\ presentQueue = <<>>)

\* The handle createSwapchainKHR returns: one no live swapchain has.
NewSwapchain == Min((1 .. MaxSwapchains) \ swapchains)

\* What the driver answers to the calls of one resize, in call order:
\* getSurfaceCapabilitiesKHR, getSurfacePresentModesKHR, createSwapchainKHR,
\* waitIdle, getSwapchainImagesKHR (count), getSwapchainImagesKHR (images); a
\* call the code does not reach answers nothing.
ResizeCallNames == <<"getSurfaceCapabilitiesKHR", "getSurfacePresentModesKHR",
                     "createSwapchainKHR", "waitIdle", "getSwapchainImagesKHR (count)",
                     "getSwapchainImagesKHR (images)">>

ResizeCalls == Len(ResizeCallNames)

ResizeAnswers(reached, last) ==
    [i \in 1 .. ResizeCalls |->
        IF i < reached THEN "Success" ELSE IF i = reached THEN last ELSE NotCalled]

ResizeInputs ==
    {ResizeAnswers(1, r) : r \in CallResults \ {"Success"}}
    \cup (IF ZeroExtent(currentExtent)
          THEN {ResizeAnswers(1, "Success")}
          ELSE {ResizeAnswers(ResizeCalls, "Success")}
               \cup {ResizeAnswers(k, r) : k \in 2 .. ResizeCalls, r \in CallResults \ {"Success"}})

ResizeFails(err, step) ==
    /\ ret' = Ret("Window::resize", err, step, "failure")
    /\ UNCHANGED <<m_swapchain, m_extent, m_image_count, m_swapchain_images, swapchains,
                   imageState>>

Window_resize(x) ==
    /\ ~aborted
    /\ windowLive
    /\ waitIdle(x[4])
    /\ x[3] = "Success" => Cardinality(swapchains) < MaxSwapchains
    /\ UNCHANGED <<aborted, engineVars, selectVars, bufVars, imgVars, currentExtent>>
    /\ UNCHANGED <<windowLive, frameVars, syncVars, gpuQueue, presentQueue, hist>>
    /\ IF x[1] # "Success" THEN ResizeFails("VulkanFailure", "getSurfaceCapabilitiesKHR")
       ELSE IF ZeroExtent(currentExtent) THEN ResizeFails("InvalidWindowSize", "currentExtent")
       ELSE IF x[2] # "Success" THEN ResizeFails("VulkanFailure", "getSurfacePresentModesKHR")
       ELSE IF x[3] # "Success" THEN ResizeFails("CouldNotCreateVkSwapchain", "createSwapchainKHR")
       ELSE IF x[4] # "Success"
       THEN /\ swapchains' = swapchains \cup {NewSwapchain}
            /\ ret' = Ret("Window::resize", "CouldNotWaitForVkQueue", "waitIdle", "failure")
            /\ UNCHANGED <<m_swapchain, m_extent, m_image_count, m_swapchain_images, imageState>>
       ELSE /\ swapchains' = (swapchains \cup {NewSwapchain}) \ {m_swapchain}
            /\ m_swapchain' = NewSwapchain
            /\ m_extent' = currentExtent
            /\ imageState' = [k \in Images |-> "free"]
            /\ IF x[5] # "Success"
               THEN /\ ret' = Ret("Window::resize", "VkSwapchainImagesUnavailable",
                                  "getSwapchainImagesKHR (count)", "failure")
                    /\ UNCHANGED <<m_image_count, m_swapchain_images>>
               ELSE IF x[6] # "Success"
               THEN /\ ret' = Ret("Window::resize", "VkSwapchainImagesUnavailable",
                                  "getSwapchainImagesKHR (images)", "failure")
                    /\ m_image_count' = NumImages
                    /\ UNCHANGED m_swapchain_images
               ELSE /\ ret' = Ret("Window::resize", "Ok", NoStep, "Success")
                    /\ m_image_count' = NumImages
                    /\ m_swapchain_images' = NewSwapchain

\* The user resizes or minimises the window.
SurfaceResized(extent) ==
    /\ ~aborted
    /\ windowLive
    /\ extent # currentExtent
    /\ currentExtent' = extent
    /\ UNCHANGED <<aborted, ret, engineVars, windowVars, selectVars, bufVars, imgVars>>
    /\ UNCHANGED <<m_swapchain, m_extent, m_image_count, m_swapchain_images, swapchains>>

----------------------------------------------------------------------------
\* GpuBuffer::write

Bytes == {0, 1}
Zeros(n) == [i \in 1 .. n |-> 0]
MemoryTypes == {"RandomAccess", "Staging", "DeviceLocal"}

\* vmaCopyMemoryToAllocation(allocator, data, allocation, offset, size): memcpy of
\* size bytes of data to the mapped allocation, offset bytes from its start.
vmaCopyMemoryToAllocation(data, dst, offset, size) ==
    [i \in 1 .. Len(dst) |->
        IF offset < i /\ i <= offset + size THEN data[i - offset] ELSE dst[i]]

BufferCopy_Short(offset, size) == [srcOffset |-> offset, dstOffset |-> 0, size |-> size - 1]

\* vk::BufferCopy(offset, 0, size): the members are srcOffset, dstOffset, size.
BufferCopy(offset, size) == [srcOffset |-> offset, dstOffset |-> 0, size |-> size]

\* cmd.copyBuffer(src, dst, {region}), once executed; a source byte beyond the end
\* of src is whatever the device reads there (garbage).
copyBuffer(src, dst, region, garbage) ==
    [i \in 1 .. Len(dst) |->
        IF region.dstOffset < i /\ i <= region.dstOffset + region.size
        THEN LET k == i - region.dstOffset
             IN IF region.srcOffset + k <= Len(src) THEN src[region.srcOffset + k]
                ELSE garbage[k]
        ELSE dst[i]]

OffsetAllowed_Unchecked(offset) == TRUE

\* if (memory_type == Staging) ASSERT(offset == 0);
OffsetAllowed(offset) == memory_type = "Staging" => offset = 0

\* The calls of submit_single_time_commands that can fail, in call order
\* (begin_single_time_commands, then end_single_time_commands).
SubmitSteps == {"allocateCommandBuffers", "begin", "end", "createFence", "submit",
                "waitForFences"}

\* The copy reached the queue: every call succeeded, or only the fence wait failed.
Submitted(failAt) == failAt \in {NoStep, "waitForFences"}

ReturnsAfterDefer_SuccessOnly == {NoStep}

\* defer(vmaDestroyBuffer(staging)) is registered once the staging buffer exists:
\* the returns that follow it, named by the call whose failure causes them.
ReturnsAfterDefer == {"vmaCopyMemoryToAllocation", "submit_single_time_commands", NoStep}

\* `return staging_buffer.err()` for a staging_buffer that holds a value: the tag
\* returned is not defined, or the access is itself fatal.
UndefinedErr == {"CouldNotCreateGpuBuffer", "CouldNotWriteGpuBuffer", "VulkanFailure", "Fatal"}

\* What the allocator and the device answer during one write, in call order:
\* create_result of the staging buffer, vmaCopyMemoryToAllocation, the failing call
\* of submit_single_time_commands, whether the bytes reached the destination,
\* the bytes past the end of a copy source, the undefined error tag. A call the
\* code does not reach answers nothing.
DirectInputs(data) ==
    {<<NotCalled, c, NotCalled, d, Zeros(Len(data)), "none">> :
        c \in CallResults, d \in BOOLEAN} \ {<<NotCalled, "Success", NotCalled, FALSE, Zeros(Len(data)), "none">>}

StagedInputs(data, offset) ==
    LET none == Zeros(Len(data))
        beyond == IF offset > 0 THEN [1 .. Len(data) -> Bytes] ELSE {none}
    IN {<<c, NotCalled, NotCalled, FALSE, none, "none">> : c \in CallResults \ {"Success"}}
       \cup {<<"Success", c, NotCalled, FALSE, none, tag>> :
                c \in CallResults \ {"Success"}, tag \in UndefinedErr}
       \cup {<<"Success", "Success", failAt, FALSE, none, "none">> : failAt \in SubmitSteps}
       \cup {<<"Success", "Success", failAt, TRUE, g, "none">> :
                failAt \in {f \in SubmitSteps \cup {NoStep} : Submitted(f)}, g \in beyond}

WriteInputs(data, offset) ==
    IF Len(data) = 0 \/ ~OffsetAllowed(offset)
    THEN {<<NotCalled, NotCalled, NotCalled, FALSE, Zeros(Len(data)), "none">>}
    ELSE IF memory_type \in {"RandomAccess", "Staging"} THEN DirectInputs(data)
    ELSE StagedInputs(data, offset)

Written(data, offset, created, destroyed) ==
    [data |-> data, offset |-> offset, created |-> created, destroyed |-> destroyed]

WriteReturns(result, step, data, offset, created) ==
    LET destroyed == IF created = 1 /\ step \in ReturnsAfterDefer THEN 1 ELSE 0
    IN /\ ret' = Ret("GpuBuffer::write", result, step, IF result = "Ok" THEN "Success" ELSE "failure")
       /\ lastWrite' = Written(data, offset, created, destroyed)
       /\ stagingBuffers' = stagingBuffers + created - destroyed
       /\ UNCHANGED aborted

WriteFatal(why, data, offset, created) ==
    /\ Fatal("GpuBuffer::write", why)
    /\ lastWrite' = Written(data, offset, created, 0)
    /\ stagingBuffers' = stagingBuffers + created
    /\ UNCHANGED buffer

write_result(data, offset, x) ==
    /\ ~aborted
    /\ memory_type \in MemoryTypes
    /\ UNCHANGED <<engineVars, windowVars, selectVars, swapVars, memory_type, imgVars>>
    /\ IF Len(data) = 0 THEN WriteFatal("ASSERT(size != 0)", data, offset, 0)
       ELSE IF ~OffsetAllowed(offset) THEN WriteFatal("ASSERT(offset == 0)", data, offset, 0)
       ELSE IF memory_type \in {"RandomAccess", "Staging"}
       THEN /\ buffer' = IF x[4] THEN vmaCopyMemoryToAllocation(data, buffer, offset, Len(data))
                         ELSE buffer
            /\ IF x[2] # "Success"
               THEN WriteReturns("CouldNotWriteGpuBuffer", "vmaCopyMemoryToAllocation", data, offset, 0)
               ELSE WriteReturns("Ok", NoStep, data, offset, 0)
       ELSE IF x[1] # "Success"
       THEN /\ WriteReturns("CouldNotCreateGpuBuffer", "create_result", data, offset, 0)
            /\ UNCHANGED buffer
       ELSE IF x[2] # "Success"
       THEN IF x[6] = "Fatal"
            THEN WriteFatal("staging_buffer.err()", data, offset, 1)
            ELSE /\ WriteReturns(x[6], "vmaCopyMemoryToAllocation", data, offset, 1)
                 /\ UNCHANGED buffer
       ELSE LET staging == vmaCopyMemoryToAllocation(data, Zeros(Len(data)), 0, Len(data))
                copied == copyBuffer(staging, buffer, BufferCopy(offset, Len(data)), x[5])
            IN /\ buffer' = IF x[4] THEN copied ELSE buffer
               /\ IF x[3] # NoStep
                  THEN WriteReturns("CouldNotWriteGpuBuffer", "submit_single_time_commands", data, offset, 1)
                  ELSE WriteReturns("Ok", NoStep, data, offset, 1)

----------------------------------------------------------------------------
\* The Vulkan calls begin_frame makes, as relations on the driver state.

\* vkWaitForFences(fence i, 1 s): success only for a signaled fence, timeout only
\* for one that stayed unsignaled.
waitForFences(i, w) ==
    /\ w = "Success" => fence[i]
    /\ w = "Timeout" => ~fence[i]

\* vkAcquireNextImageKHR(swapchain, UINT64_MAX, semaphore i): a success code hands
\* out a free image and arms the semaphore, an error code does neither.
Acquired(a) == a \in {"Success", "Suboptimal"}

acquireNextImageKHR(a, img) ==
    Acquired(a) => (img \in Images /\ imageState[img] = "free")

WaitFailed_Ignored(w) == FALSE

\* if (wait_result != vk::Result::eSuccess) return Err::CouldNotWaitForVkFence;
WaitFailed(w) == w # "Success"

BeginFramePre_Unchecked == TRUE

\* ASSERT(!m_recording);
BeginFramePre == ~m_recording

\* What the driver answers to the calls of one begin_frame, in call order: a call
\* the code does not reach answers nothing.
BeginSequence(x) ==
    /\ x[2] = NotCalled <=> WaitFailed(x[1])
    /\ x[3] = NotCalled <=> x[2] # "Success"
    /\ x[4] = NoImage <=> ~Acquired(x[3])
    /\ x[5] = NotCalled <=> x[3] # "Success"

BeginInputs ==
    {x \in WaitResults \X (CallResults \cup {NotCalled}) \X (AcquireResults \cup {NotCalled})
            \X (Images \cup {NoImage}) \X (CallResults \cup {NotCalled}) : BeginSequence(x)}

begin_frame(w, r, a, img, b) ==
    /\ ~aborted
    /\ UNCHANGED <<selectVars, swapVars, bufVars, imgVars>>
    /\ windowLive
    /\ IF ~BeginFramePre
       THEN /\ Fatal("begin_frame", "ASSERT(!m_recording)")
            /\ UNCHANGED <<engineVars, windowVars>>
       ELSE
       /\ waitForFences(is_frame_finished, w)
       /\ UNCHANGED <<aborted, engineVars, windowLive, ready, gpuQueue, presentQueue,
                      m_current_frame_index>>
       /\ IF WaitFailed(w)
          THEN /\ ret' = Ret("begin_frame", "CouldNotWaitForVkFence", "waitForFences", w)
               /\ hist' = <<>>
               /\ UNCHANGED <<m_recording, m_current_image_index, fence, cmd, imgAvail,
                              imageState>>
          ELSE IF r # "Success"
          THEN /\ ret' = Ret("begin_frame", "VulkanFailure", "resetFences", r)
               /\ hist' = <<>>
               /\ UNCHANGED <<m_recording, m_current_image_index, fence, cmd, imgAvail,
                              imageState>>
          ELSE
          /\ fence' = [fence EXCEPT ![is_frame_finished] = FALSE]
          /\ acquireNextImageKHR(a, img)
          /\ IF Acquired(a)
             THEN /\ imageState' = [imageState EXCEPT ![img] = "acquired"]
                  /\ imgAvail' = [imgAvail EXCEPT ![is_image_available] =
                                      [state |-> "armed", image |-> img]]
             ELSE UNCHANGED <<imageState, imgAvail>>
          /\ IF a # "Success"
             THEN /\ ret' = Ret("begin_frame", "CouldNotAcquireVkSwapchainImage",
                                "acquireNextImageKHR", a)
                  /\ hist' = <<>>
                  /\ UNCHANGED <<m_recording, m_current_image_index, cmd>>
             ELSE
             /\ m_current_image_index' = img
             /\ IF b # "Success"
                THEN /\ cmd' = [cmd EXCEPT ![current_cmd] = "invalid"]
                     /\ ret' = Ret("begin_frame", "CouldNotBeginVkCommandBuffer",
                                   "begin", b)
                     /\ hist' = <<>>
                     /\ UNCHANGED m_recording
                ELSE /\ cmd' = [cmd EXCEPT ![current_cmd] = "recording"]
                     /\ m_recording' = TRUE
                     /\ ret' = Ret("begin_frame", "Ok", NoStep, "Success")
                     /\ UNCHANGED hist

----------------------------------------------------------------------------
\* end_frame

\* ASSERT(m_recording);
EndFramePre == m_recording

NextFrameIndex_NoWrap(i) == (i + 1) % (MaxFramesInFlight + 1)

\* m_current_frame_index = (m_current_frame_index + 1) % MaxFramesInFlight;
NextFrameIndex(i) == (i + 1) % MaxFramesInFlight

\* vk::SubmitInfo of end_frame, with the fence handed to queue.submit: wait on
\* "image available" at the colour-attachment-output stage, signal "ready to present".
submit_info ==
    [slot |-> current_cmd, image |-> m_current_image_index,
     waitSem |-> is_image_available, signalSem |-> is_ready_to_present,
     fence |-> is_frame_finished, phase |-> "waiting"]

present_info_NoWait == [waitSem |-> NoSem, image |-> m_current_image_index]

\* vk::PresentInfoKHR of end_frame: wait on "ready to present".
present_info == [waitSem |-> is_ready_to_present, image |-> m_current_image_index]

\* if (present_result == vk::Result::eErrorOutOfDateKHR) return Err::InvalidWindowSize;
\* if (present_result != vk::Result::eSuccess) return Err::CouldNotPresentVkSwapchainImage;
PresentReturn(p) ==
    IF p = "OutOfDate" THEN "InvalidWindowSize"
    ELSE IF p # "Success" THEN "CouldNotPresentVkSwapchainImage"
    ELSE "Ok"

\* The frame index before each of the latest consecutive successful cycles (at most
\* MaxFramesInFlight of them are kept).
Remember(h, i) ==
    LET all == Append(h, i)
    IN IF Len(all) > MaxFramesInFlight THEN Tail(all) ELSE all

\* What the driver answers to the calls of one end_frame, in call order.
EndSequence(x) ==
    /\ x[2] = NotCalled <=> x[1] # "Success"
    /\ x[3] = NotCalled <=> x[2] # "Success"

EndInputs ==
    {x \in CallResults \X (CallResults \cup {NotCalled}) \X (PresentResults \cup {NotCalled}) :
        EndSequence(x)}

end_frame(e, s, p) ==
    /\ ~aborted
    /\ UNCHANGED <<selectVars, swapVars, bufVars, imgVars>>
    /\ windowLive
    /\ IF ~EndFramePre
       THEN /\ Fatal("end_frame", "ASSERT(m_recording)")
            /\ UNCHANGED <<engineVars, windowVars>>
       ELSE
       /\ UNCHANGED <<aborted, engineVars, windowLive, fence, imgAvail, ready, imageState,
                      m_current_image_index>>
       /\ IF e # "Success"
          THEN /\ cmd' = [cmd EXCEPT ![current_cmd] = "invalid"]
               /\ ret' = Ret("end_frame", "CouldNotEndVkCommandBuffer", "end", e)
               /\ hist' = <<>>
               /\ UNCHANGED <<m_recording, m_current_frame_index, gpuQueue, presentQueue>>
          ELSE
          /\ m_recording' = FALSE
          /\ IF s # "Success"
             THEN /\ cmd' = [cmd EXCEPT ![current_cmd] = "executable"]
                  /\ ret' = Ret("end_frame", "CouldNotSubmitVkCommandBuffer", "submit", s)
                  /\ hist' = <<>>
                  /\ UNCHANGED <<m_current_frame_index, gpuQueue, presentQueue>>
             ELSE
             /\ cmd' = [cmd EXCEPT ![current_cmd] = "pending"]
             /\ gpuQueue' = Append(gpuQueue, submit_info)
             \* the presentation request is queued whatever vkQueuePresentKHR reports
             \* (suboptimal, out of date, surface lost): its semaphore wait executes.
             /\ presentQueue' = Append(presentQueue, present_info)
             /\ ret' = Ret("end_frame", PresentReturn(p), "presentKHR", p)
             /\ IF p # "Success"
                THEN /\ hist' = <<>>
                     /\ UNCHANGED m_current_frame_index
                ELSE /\ hist' = Remember(hist, m_current_frame_index)
                     /\ m_current_frame_index' = NextFrameIndex(m_current_frame_index)

----------------------------------------------------------------------------
\* The device: one queue executing submissions in submission order, and the
\* presentation engine.

\* The presentation engine has finished with the acquired image: the
\* "image available" semaphore passed to the acquisition becomes signaled.
ImageBecomesAvailable(i) ==
    /\ ~aborted
    /\ UNCHANGED <<selectVars, swapVars, bufVars, imgVars>>
    /\ windowLive
    /\ imgAvail[i].state = "armed"
    /\ imgAvail' = [imgAvail EXCEPT ![i].state = "signaled"]
    /\ UNCHANGED <<aborted, ret, engineVars, windowLive, frameVars, fence, cmd, ready,
                   deviceVars, hist>>

SemaphoreSignaled(sem) == imgAvail[sem].state = "signaled"

\* The oldest submission passes its semaphore wait and starts writing colour output.
GpuStartColorOutput ==
    /\ ~aborted
    /\ UNCHANGED <<selectVars, swapVars, bufVars, imgVars>>
    /\ windowLive
    /\ gpuQueue # <<>>
    /\ Head(gpuQueue).phase = "waiting"
    /\ SemaphoreSignaled(Head(gpuQueue).waitSem)
    /\ gpuQueue' = [gpuQueue EXCEPT ![1].phase = "running"]
    /\ imgAvail' = [imgAvail EXCEPT ![Head(gpuQueue).waitSem] = Unsignaled]
    /\ UNCHANGED <<aborted, ret, engineVars, windowLive, frameVars, fence, cmd, ready,
                   imageState, presentQueue, hist>>

\* The oldest submission completes: its fence and its signal semaphore are signaled
\* and the one-time-submit command buffer leaves the pending state.
GpuComplete ==
    /\ ~aborted
    /\ UNCHANGED <<selectVars, swapVars, bufVars, imgVars>>
    /\ windowLive
    /\ gpuQueue # <<>>
    /\ Head(gpuQueue).phase = "running"
    /\ gpuQueue' = Tail(gpuQueue)
    /\ fence' = [fence EXCEPT ![Head(gpuQueue).fence] = TRUE]
    /\ ready' = [ready EXCEPT ![Head(gpuQueue).signalSem] = TRUE]
    /\ cmd' = [cmd EXCEPT ![Head(gpuQueue).slot] =
                  IF @ = "pending" THEN "invalid" ELSE @]
    /\ UNCHANGED <<aborted, ret, engineVars, windowLive, frameVars, imgAvail,
                   imageState, presentQueue, hist>>

\* The oldest presentation request passes its semaphore wait: the image goes to the
\* display and is handed back to the swapchain.
GpuPresent ==
    /\ ~aborted
    /\ UNCHANGED <<selectVars, swapVars, bufVars, imgVars>>
    /\ windowLive
    /\ presentQueue # <<>>
    /\ Head(presentQueue).waitSem = NoSem \/ ready[Head(presentQueue).waitSem]
    /\ presentQueue' = Tail(presentQueue)
    /\ ready' = IF Head(presentQueue).waitSem = NoSem THEN ready
                ELSE [ready EXCEPT ![Head(presentQueue).waitSem] = FALSE]
    /\ imageState' = [imageState EXCEPT ![Head(presentQueue).image] = "free"]
    /\ UNCHANGED <<aborted, ret, engineVars, windowLive, frameVars, fence, cmd, imgAvail,
                   gpuQueue, hist>>

----------------------------------------------------------------------------
\* A device that has everything Engine::create asks for.
SuitableGpu ==
    [sampleRateShading |-> TRUE, samplerAnisotropy |-> TRUE,
     extensions |-> ExtensionNames, families |-> <<{"graphics", "compute"}>>]

NoWrite == [data |-> <<>>, offset |-> 0, created |-> 0, destroyed |-> 0]

\* No swapchain exists and no buffer is under consideration.
NoSwapchain ==
    /\ m_swapchain = 0
    /\ m_extent = <<0, 0>>
    /\ m_image_count = 0
    /\ m_swapchain_images = 0
    /\ swapchains = {}
    /\ currentExtent = <<1, 1>>

NoBuffer ==
    /\ memory_type = "none"
    /\ buffer = <<>>
    /\ stagingBuffers = 0
    /\ lastWrite = NoWrite

NotCreated == [extent |-> <<0, 0, 0>>, mip_levels |-> 0, arrayLayers |-> 0, layout |-> <<>>, contents |-> <<>>,
               imageType |-> "none", viewType |-> "none"]
\* The extent and final layout given, and whether the format given can be filtered linearly.
ImageCall(extent, final_layout, linear) ==
    [extent |-> extent, final_layout |-> final_layout, linear |-> linear]

NoImageCall == ImageCall(<<0, 0, 0>>, "Undefined", TRUE)
NotBegun == [pc |-> "idle", calls |-> <<>>, fence |-> "none", work |-> 0, caller |-> "none"]

\* No image is under consideration, no single-time command buffer is in use and
\* no swapchain is being requested.
NoGpuImage ==
    /\ image = NotCreated
    /\ lastImageCall = NoImageCall
    /\ recorded = <<>>
    /\ single_time = NotBegun
    /\ surface_capabilities = [minImageCount |-> 1, maxImageCount |-> 0]
    /\ swapchain_info = [minImageCount |-> 0]

Init ==
    /\ aborted = FALSE
    /\ ret = Ret("none", "Ok", NoStep, "Success")
    /\ s_engine_initialized = FALSE
    /\ liveEngines = 0
    /\ windowLive = FALSE
    /\ m_recording = FALSE
    /\ m_current_frame_index = 0
    /\ m_current_image_index = 0
    /\ fence = [i \in Slots |-> TRUE]
    /\ cmd = [i \in Slots |-> "initial"]
    /\ imgAvail = [i \in Slots |-> Unsignaled]
    /\ ready = [i \in Slots |-> FALSE]
    /\ imageState = [k \in Images |-> "free"]
    /\ gpuQueue = <<>>
    /\ presentQueue = <<>>
    /\ hist = <<>>
    /\ gpus = <<SuitableGpu>>
    /\ queue_families = SuitableGpu.families
    /\ selection = NotSelected
    /\ NoSwapchain
    /\ NoBuffer
    /\ NoGpuImage

EngineCreateCall == \E failAt \in CreateOutcomes : Engine_create(failAt)
WindowCreateCall == \E ok \in BOOLEAN : Window_create(ok)
BeginFrameCall == \E x \in BeginInputs : begin_frame(x[1], x[2], x[3], x[4], x[5])
EndFrameCall == \E x \in EndInputs : end_frame(x[1], x[2], x[3])
SemaphoreStep == \E i \in Slots : ImageBecomesAvailable(i)

Next ==
    \/ EngineCreateCall
    \/ Engine_destroy
    \/ WindowCreateCall
    \/ Window_destroy
    \/ BeginFrameCall
    \/ EndFrameCall
    \/ SemaphoreStep
    \/ GpuStartColorOutput
    \/ GpuComplete
    \/ GpuPresent

Spec == Init /\ [][Next]_vars

----------------------------------------------------------------------------
\* find_gpu and find_queue_family applied to every machine within the bounds.

\* The state before the frame loop starts, apart from the machine's devices.
FrameLoopIdle ==
    /\ aborted = FALSE
    /\ ret = Ret("none", "Ok", NoStep, "Success")
    /\ s_engine_initialized = FALSE
    /\ liveEngines = 0
    /\ windowLive = FALSE
    /\ m_recording = FALSE
    /\ m_current_frame_index = 0
    /\ m_current_image_index = 0
    /\ fence = [i \in Slots |-> TRUE]
    /\ cmd = [i \in Slots |-> "initial"]
    /\ imgAvail = [i \in Slots |-> Unsignaled]
    /\ ready = [i \in Slots |-> FALSE]
    /\ imageState = [k \in Images |-> "free"]
    /\ gpuQueue = <<>>
    /\ presentQueue = <<>>
    /\ hist = <<>>

FindGpuFailures == {NoStep, "enumeratePhysicalDevices", "enumerateDeviceExtensionProperties"}

find_gpu_call(failAt) ==
    /\ selection = NotSelected
    /\ selection' = find_gpu(gpus, failAt)
    /\ ret' = Ret("find_gpu", selection'.err, failAt, "none")
    /\ UNCHANGED <<aborted, engineVars, windowVars, gpus, queue_families, swapVars, bufVars, imgVars>>

find_queue_family_call ==
    /\ selection = NotSelected
    /\ selection' = find_queue_family(queue_families)
    /\ ret' = Ret("find_queue_family", selection'.err, NoStep, "none")
    /\ UNCHANGED <<aborted, engineVars, windowVars, gpus, queue_families, swapVars, bufVars, imgVars>>

GpuInit ==
    /\ FrameLoopIdle
    /\ gpus \in SeqsUpTo(PhysicalDevices, MaxGpus)
    /\ queue_families = <<>>
    /\ selection = NotSelected
    /\ NoSwapchain
    /\ NoBuffer
    /\ NoGpuImage

GpuNext == \E failAt \in FindGpuFailures : find_gpu_call(failAt)

GpuSpec == GpuInit /\ [][GpuNext]_vars

QueueInit ==
    /\ FrameLoopIdle
    /\ gpus = <<>>
    /\ queue_families \in SeqsUpTo(QueueFlags, MaxFamilies)
    /\ selection = NotSelected
    /\ NoSwapchain
    /\ NoBuffer
    /\ NoGpuImage

QueueNext == find_queue_family_call

QueueSpec == QueueInit /\ [][QueueNext]_vars

----------------------------------------------------------------------------
\* The engine's life cycle on every machine with at most one physical device.

EngineInit ==
    /\ FrameLoopIdle
    /\ gpus \in {<<>>} \cup {<<gpu>> : gpu \in PhysicalDevices}
    /\ queue_families = <<>>
    /\ selection = NotSelected
    /\ NoSwapchain
    /\ NoBuffer
    /\ NoGpuImage

EngineNext ==
    \/ EngineCreateCall
    \/ Engine_destroy

EngineSpec == EngineInit /\ [][EngineNext]_vars

----------------------------------------------------------------------------
\* A live window whose surface changes size: the application renders one frame,
\* whose calls succeed or report out of date, and from then on calls resize, with
\* every answer the driver can give, while the device works the frame off.

ResizeInit ==
    /\ aborted = FALSE
    /\ ret = Ret("Window::create", "Ok", NoStep, "Success")
    /\ s_engine_initialized = TRUE
    /\ liveEngines = 1
    /\ windowLive = TRUE
    /\ m_recording = FALSE
    /\ m_current_frame_index = 0
    /\ m_current_image_index = 0
    /\ fence = [i \in Slots |-> TRUE]
    /\ cmd = [i \in Slots |-> "initial"]
    /\ imgAvail = [i \in Slots |-> Unsignaled]
    /\ ready = [i \in Slots |-> FALSE]
    /\ imageState = [k \in Images |-> "free"]
    /\ gpuQueue = <<>>
    /\ presentQueue = <<>>
    /\ hist = <<>>
    /\ gpus = <<SuitableGpu>>
    /\ queue_families = SuitableGpu.families
    /\ selection = NotSelected
    /\ currentExtent = <<1, 1>>
    /\ m_swapchain = 1
    /\ m_extent = currentExtent
    /\ m_image_count = NumImages
    /\ m_swapchain_images = 1
    /\ swapchains = {1}
    /\ NoBuffer
    /\ NoGpuImage

FrameAnswers == {"Success", "OutOfDate", NotCalled}

ResizeCall == \E x \in ResizeInputs : Window_resize(x)

SurfaceChange == \E extent \in Extents : SurfaceResized(extent)

BeginFrameAnswered ==
    /\ ret.op = "Window::create"
    /\ \E x \in BeginInputs :
          /\ {x[1], x[2], x[3], x[5]} \subseteq FrameAnswers
          /\ begin_frame(x[1], x[2], x[3], x[4], x[5])

EndFrameAnswered ==
    /\ ret.op = "begin_frame"
    /\ \E x \in EndInputs :
          /\ {x[1], x[2], x[3]} \subseteq FrameAnswers
          /\ end_frame(x[1], x[2], x[3])

ResizeNext ==
    \/ ResizeCall
    \/ SurfaceChange
    \/ BeginFrameAnswered
    \/ EndFrameAnswered
    \/ SemaphoreStep
    \/ GpuStartColorOutput
    \/ GpuComplete
    \/ GpuPresent

ResizeSpec == ResizeInit /\ [][ResizeNext]_vars

----------------------------------------------------------------------------
\* Writes to one GpuBuffer of each memory type, from every content it can have.

BufferInit ==
    /\ FrameLoopIdle
    /\ gpus = <<SuitableGpu>>
    /\ queue_families = SuitableGpu.families
    /\ selection = NotSelected
    /\ NoSwapchain
    /\ memory_type \in MemoryTypes
    /\ buffer \in [1 .. BufferSize -> Bytes]
    /\ stagingBuffers = 0
    /\ lastWrite = NoWrite
    /\ NoGpuImage

\* The caller's data and offset: the written range lies within the buffer.
WriteArguments ==
    {a \in SeqsUpTo(Bytes, BufferSize) \X (0 .. BufferSize) : Len(a[1]) + a[2] <= BufferSize}

WriteCall ==
    \E a \in WriteArguments : \E x \in WriteInputs(a[1], a[2]) : write_result(a[1], a[2], x)

BufferNext == WriteCall

BufferSpec == BufferInit /\ [][BufferNext]_vars

----------------------------------------------------------------------------
\* Properties of the frame loop

Pending(i) == \E k \in 1 .. Len(gpuQueue) : gpuQueue[k].slot = i

StartsRecording(i) == cmd[i] # "recording" /\ cmd'[i] = "recording"

Returned(op) == ret.op = op /\ ret.result # "Fatal"

\* C1: begin_frame never starts recording into slot i's command buffer while a
\* submission of that command buffer is still pending on the queue, and recording on
\* slot i begins only in a step that found slot i's frame-finished fence signaled.
C1_RecordingGatedByFence ==
    /\ [](\A i \in Slots : cmd[i] = "recording" => ~Pending(i))
    /\ [][\A i \in Slots : StartsRecording(i) => (fence[i] /\ ~Pending(i))]_vars

\* C1 witness: slot reuse. A full round of frame slots has been submitted, the
\* current slot is being recorded again and another slot's submission is in flight.
C1_Witness ==
    /\ m_recording
    /\ cmd[m_current_frame_index] = "recording"
    /\ Len(hist) = MaxFramesInFlight
    /\ gpuQueue # <<>>

\* C2: m_recording is true exactly between a successful begin_frame and the return
\* of the following end_frame: false after a failed begin_frame, false after
\* end_frame returns with any outcome.
C2_RecordingFlagTracksFramePair ==
    /\ Returned("begin_frame") => (m_recording <=> ret.result = "Ok")
    /\ Returned("end_frame") => ~m_recording

\* C3: the frame-slot index stays in 0..N-1 and, after N consecutive successful
\* begin_frame/end_frame cycles, equals the value it had before those N cycles.
C3_FrameIndexCyclic ==
    /\ m_current_frame_index \in Slots
    /\ Len(hist) = MaxFramesInFlight => m_current_frame_index = hist[1]

\* C3 witness: N consecutive successful cycles have just been completed.
C3_Witness ==
    /\ Len(hist) = MaxFramesInFlight
    /\ Returned("end_frame")
    /\ ret.result = "Ok"

EndFrameReturns == EndFrameCall /\ ~aborted'

\* C4: end_frame advances the frame-slot index by one modulo N on every return,
\* whatever the outcome (success, out of date, failed end, submit or present).
C4_IndexAdvancesOnEveryReturn ==
    [][EndFrameReturns =>
          m_current_frame_index' = (m_current_frame_index + 1) % MaxFramesInFlight]_vars

\* C5: begin_frame called while m_recording is true, or end_frame while it is false,
\* trips a fatal assertion and touches no fence, semaphore, swapchain image, command
\* buffer or queue state.
C5_AlternationAsserted ==
    [][((m_recording /\ BeginFrameCall) \/ (~m_recording /\ EndFrameCall)) =>
          (aborted' /\ ret'.result = "Fatal" /\ UNCHANGED windowVars)]_vars

\* C5 witness: a second begin_frame with no end_frame in between was fatal.
C5_Witness ==
    /\ aborted
    /\ ret.op = "begin_frame"
    /\ ret.result = "Fatal"
    /\ m_recording
    /\ cmd[m_current_frame_index] = "recording"

\* C6: begin_frame fails only if the fence wait times out, if image acquisition
\* fails for a reason other than "out of date", or if command-buffer begin fails;
\* an out-of-date acquisition is not reported as a begin_frame failure.
C6_BeginFrameFailureCauses ==
    (Returned("begin_frame") /\ ret.result # "Ok") =>
        \/ ret.step = "waitForFences" /\ ret.vk = "Timeout"
        \/ ret.step = "acquireNextImageKHR" /\ ret.vk # "OutOfDate"
        \/ ret.step = "begin"

ResizeSignal == "InvalidWindowSize"

\* C7: end_frame reports an out-of-date and a suboptimal presentation result alike
\* as the recoverable resize signal, and any other presentation failure as an error
\* that differs from it.
C7_PresentResizeSignal ==
    (Returned("end_frame") /\ ret.step = "presentKHR" /\ ret.vk # "Success") =>
        (ret.vk \in {"OutOfDate", "Suboptimal"} <=> ret.result = ResizeSignal)

RenderingTo(img) == \E k \in 1 .. Len(gpuQueue) : gpuQueue[k].image = img

C9_FramesInFlightBounded ==
    /\ [](Len(gpuQueue) <= MaxFramesInFlight)
    /\ [](\A i \in Slots :
            /\ Cardinality({k \in 1 .. Len(gpuQueue) : gpuQueue[k].slot = i}) <= 1
            /\ fence[i] => ~Pending(i))
    /\ [][\A i \in Slots :
            (imgAvail'[i].state = "armed" /\ imgAvail[i].state # "armed") => fence[i]]_vars

\* C9 witness: N frames are in flight at once.
C9_Witness == Len(gpuQueue) = MaxFramesInFlight

----------------------------------------------------------------------------
\* Properties of the Engine

CreateWhileLive == liveEngines > 0 /\ EngineCreateCall

\* C10 as stated: Engine::create while an engine is live reports a failure to its
\* caller, produces no second engine and leaves the flag and the live engine alone.
C10_SecondCreateReturnsFailure ==
    [][CreateWhileLive =>
          /\ ~aborted'
          /\ ret'.op = "Engine::create"
          /\ ret'.result \notin {"Ok", "Fatal"}
          /\ UNCHANGED engineVars]_vars

\* C10 amended: Engine::create while an engine is live never produces a second
\* engine: it ends the process with a fatal error (nothing is returned to the
\* caller) and leaves the flag and the live engine unchanged; at most one engine
\* is live at any time, and the flag is set exactly while one is.
C10_SecondCreateIsFatal ==
    /\ [][CreateWhileLive =>
             /\ aborted'
             /\ ret'.result = "Fatal"
             /\ UNCHANGED engineVars]_vars
    /\ [](liveEngines <= 1)
    /\ [](s_engine_initialized <=> liveEngines = 1)

\* C10 witness: a second create was attempted while an engine was live.
C10_Witness ==
    /\ aborted
    /\ ret.op = "Engine::create"
    /\ ret.result = "Fatal"
    /\ liveEngines = 1
    /\ s_engine_initialized

DestroyWhileUninitialized == ~s_engine_initialized /\ Engine_destroy

DestroyWhileInitialized == s_engine_initialized /\ Engine_destroy

CreateAfterDestroy ==
    /\ ret.op = "Engine::destroy"
    /\ ret.result = "Ok"
    /\ Engine_create(NoStep)

\* C11: Engine::destroy while the initialized flag is unset (no create succeeded
\* yet, the last create failed, or the engine was already destroyed) ends the
\* process with a fatal error and releases nothing; Engine::destroy after a
\* successful create releases the engine and resets the flag, and a create that
\* follows it succeeds.
C11_DestroyNeedsSuccessfulCreate ==
    /\ [][DestroyWhileUninitialized =>
             /\ aborted'
             /\ ret'.result = "Fatal"
             /\ UNCHANGED <<engineVars, windowVars>>]_vars
    /\ [][DestroyWhileInitialized =>
             /\ ~aborted'
             /\ ~s_engine_initialized'
             /\ liveEngines' = liveEngines - 1]_vars
    /\ [][CreateAfterDestroy =>
             /\ ret'.result = "Ok"
             /\ s_engine_initialized'
             /\ liveEngines' = 1]_vars

\* C11 witness: destroy was called with the flag unset and no engine live.
C11_Witness ==
    /\ aborted
    /\ ret.op = "Engine::destroy"
    /\ ret.result = "Fatal"
    /\ ~s_engine_initialized
    /\ liveEngines = 0

SelectedGpu == gpus[selection.value]

\* C12 as stated: the device find_gpu selects has both required features and
\* reports every required device extension.
C12_SelectedGpuHasRequiredExtensions ==
    (ret.op = "find_gpu" /\ selection.err = "Ok") =>
        /\ FeaturesAccepted(SelectedGpu)
        /\ HasAllExtensions(SelectedGpu)

ChosenFamily == queue_families[selection.value + 1]

\* C13 as stated: the queue family find_queue_family chooses offers both graphics
\* and compute.
C13_ChosenFamilyHasGraphicsAndCompute ==
    (ret.op = "find_queue_family" /\ selection.err = "Ok") =>
        IsGraphicsAndCompute(ChosenFamily)

CreateFailed == ret.op = "Engine::create" /\ ret.result \notin {"Ok", "Fatal"}

\* Some device passes the feature and extension tests of find_gpu.
SomeDeviceAccepted ==
    \E k \in 1 .. Len(gpus) : FeaturesAccepted(gpus[k]) /\ ExtensionsAccepted(gpus[k])

\* The dependency whose absence made the last Engine::create fail.
MissingDependency ==
    IF ret.step \in {"find_gpu", "find_queue_family"} /\ ret.result # "VulkanFailure"
                                                      /\ ret.result # "VkPhysicalDevicesUnavailable"
    THEN IF SomeDeviceAccepted THEN "queue family" ELSE "device"
    ELSE IF ret.step = "init_allocator" THEN "allocator"
    ELSE IF ret.step \in {"createCommandPool", "createTransientCommandPool"} THEN "pool"
    ELSE "other"

\* C14 as stated: a failed Engine::create reports, for each of the four missing
\* dependencies, an error of its own, and leaves the initialized flag unset.
C14_DistinctErrorPerDependency ==
    CreateFailed =>
        /\ ~s_engine_initialized
        /\ MissingDependency = "device" => ret.result = "VkPhysicalDevicesUnsuitable"
        /\ MissingDependency = "queue family" => ret.result = "VkQueueFamilyUnavailable"
        /\ MissingDependency = "allocator" => ret.result = "CouldNotCreateVmaAllocator"
        /\ MissingDependency = "pool" => ret.result = "CouldNotCreateVkCommandPool"

\* C14 amended: a failed Engine::create reports VkPhysicalDevicesUnsuitable when no
\* device is suitable, and also when the devices lack an accepted queue family
\* (find_gpu skips them, VkQueueFamilyUnavailable is never returned); allocator and
\* pool failures have errors of their own; the failing step ends the call, no
\* engine comes to exist and the initialized flag stays unset.
C14_FailedCreateErrors ==
    /\ CreateFailed =>
        /\ ~s_engine_initialized
        /\ liveEngines = 0
        /\ MissingDependency \in {"device", "queue family"} =>
              ret.result = "VkPhysicalDevicesUnsuitable"
        /\ MissingDependency = "allocator" => ret.result = "CouldNotCreateVmaAllocator"
        /\ MissingDependency = "pool" => ret.result = "CouldNotCreateVkCommandPool"
    /\ ret.op = "Engine::create" => ret.result # "VkQueueFamilyUnavailable"

\* C14 witness: create failed on a machine whose only device passes the feature
\* and extension tests and has no accepted queue family.
C14_Witness ==
    /\ CreateFailed
    /\ MissingDependency = "queue family"
    /\ ret.result = "VkPhysicalDevicesUnsuitable"
    /\ ~s_engine_initialized

SurfaceHasNoArea == currentExtent[1] = 0 \/ currentExtent[2] = 0

ResizeWithoutArea == SurfaceHasNoArea /\ ResizeCall

\* C15: Window::resize called while the surface reports zero width or zero height
\* returns an error and leaves the swapchain handle, the extent and the swapchain
\* image array as they were; no swapchain is created or destroyed.
C15_ZeroAreaResizeChangesNothing ==
    [][ResizeWithoutArea =>
          /\ ret'.op = "Window::resize"
          /\ ret'.result \in {"InvalidWindowSize", "VulkanFailure"}
          /\ UNCHANGED <<m_swapchain, m_extent, m_image_count, m_swapchain_images,
                         swapchains>>]_vars

\* C15 witness: resize returned the zero-area error with the swapchain still live.
C15_Witness ==
    /\ SurfaceHasNoArea
    /\ ret.op = "Window::resize"
    /\ ret.result = "InvalidWindowSize"
    /\ m_swapchain \in swapchains

SwapchainDestroyedByResize ==
    /\ ret'.op = "Window::resize"
    /\ swapchains \ swapchains' # {}

\* C16 as stated: resize destroys a swapchain only after waitIdle returned success,
\* when nothing submitted is unfinished; and after a successful resize exactly one
\* swapchain, the one the window references, is live.
C16_OneSwapchainAfterResize ==
    /\ [][SwapchainDestroyedByResize =>
             /\ gpuQueue = <<>>
             /\ presentQueue = <<>>
             /\ ret'.step # "waitIdle"]_vars
    /\ []((ret.op = "Window::resize" /\ ret.result = "Ok") => swapchains = {m_swapchain})

WriteReturned == ret.op = "GpuBuffer::write" /\ ~aborted

WrittenRange == SubSeq(buffer, lastWrite.offset + 1, lastWrite.offset + Len(lastWrite.data))

\* C17: a write to a Staging buffer at a nonzero offset fails the offset-must-be-zero
\* assertion with no byte of the buffer modified; at offset 0 it passes and, when it
\* succeeds, the buffer starts with the data; a write to a RandomAccess buffer
\* passes at every offset and, when it succeeds, the data is at that offset.
C17_StagingOffsetMustBeZero ==
    /\ [][(memory_type = "Staging" /\ lastWrite'.offset # 0 /\ lastWrite'.data # <<>>) =>
             /\ aborted'
             /\ ret'.result = "Fatal"
             /\ buffer' = buffer]_vars
    /\ []((ret.op = "GpuBuffer::write" /\ lastWrite.data # <<>>
              /\ (memory_type = "RandomAccess" \/ (memory_type = "Staging" /\ lastWrite.offset = 0))) =>
             /\ ~aborted
             /\ ret.result \in {"Ok", "CouldNotWriteGpuBuffer"}
             /\ ret.result = "Ok" => WrittenRange = lastWrite.data)

\* C17 witness: a write to a Staging buffer at a nonzero offset ended in the assertion.
C17_Witness ==
    /\ memory_type = "Staging"
    /\ lastWrite.offset # 0
    /\ lastWrite.data # <<>>
    /\ aborted
    /\ ret.op = "GpuBuffer::write"

\* Reading n bytes back: a GPU copy into a RandomAccess buffer of n bytes, then the
\* mapped bytes of that buffer.
ReadBack(n) ==
    copyBuffer(buffer, Zeros(n), [srcOffset |-> 0, dstOffset |-> 0, size |-> n], Zeros(n))

\* C18: for a DeviceLocal buffer, after a successful write of bytes B at the start
\* of the buffer, reading Len(B) bytes back yields exactly B, for every B of one
\* byte up to the buffer size.
C18_DeviceLocalRoundTrip ==
    (WriteReturned /\ memory_type = "DeviceLocal" /\ ret.result = "Ok" /\ lastWrite.offset = 0) =>
        ReadBack(Len(lastWrite.data)) = lastWrite.data

\* C18 witness: a DeviceLocal write of as many bytes as the buffer holds succeeded.
C18_Witness ==
    /\ WriteReturned
    /\ memory_type = "DeviceLocal"
    /\ ret.result = "Ok"
    /\ lastWrite.offset = 0
    /\ Len(lastWrite.data) = BufferSize
    /\ \E i \in 1 .. BufferSize : lastWrite.data[i] # 0

\* The destination after data was written at offset: that range holds the data,
\* every other byte is as before.
Overwritten(dst, data, offset) ==
    [i \in 1 .. Len(dst) |->
        IF offset < i /\ i <= offset + Len(data) THEN data[i - offset] ELSE dst[i]]

\* C19 as stated: on every memory type a successful write makes the destination
\* bytes [offset, offset + size) equal to the data and leaves the others unchanged.
C19_UniformWriteContract ==
    [][(ret'.op = "GpuBuffer::write" /\ ret'.result = "Ok") =>
          buffer' = Overwritten(buffer, lastWrite'.data, lastWrite'.offset)]_vars

\* C20: whenever a write to a DeviceLocal buffer returns, the temporary staging
\* buffer it created has been destroyed exactly once and none is left; it creates
\* none exactly when the staging allocation failed.
C20_StagingReleasedOnEveryReturn ==
    (WriteReturned /\ memory_type = "DeviceLocal") =>
        /\ lastWrite.destroyed = lastWrite.created
        /\ lastWrite.created = 0 <=> ret.step = "create_result"
        /\ lastWrite.created \in {0, 1}
        /\ stagingBuffers = 0

\* C20 witness: the queued copy failed and the staging buffer was destroyed.
C20_Witness ==
    /\ WriteReturned
    /\ memory_type = "DeviceLocal"
    /\ ret.step = "submit_single_time_commands"
    /\ lastWrite.created = 1
    /\ lastWrite.destroyed = 1
    /\ stagingBuffers = 0

\* C21 as stated: a write to a DeviceLocal buffer in which the staging allocation,
\* the mapped copy into the staging buffer or the queued copy fails returns an
\* error result, never success, and the three causes have three different values.
C21_DistinctWriteErrors ==
    (ret.op = "GpuBuffer::write" /\ memory_type = "DeviceLocal" /\ lastWrite.data # <<>>) =>
        /\ ~aborted
        /\ ret.step = "create_result" => ret.result = "CouldNotCreateGpuBuffer"
        /\ ret.step = "submit_single_time_commands" => ret.result = "CouldNotWriteGpuBuffer"
        /\ ret.step = "vmaCopyMemoryToAllocation" =>
              ret.result \notin {"Ok", "CouldNotCreateGpuBuffer", "CouldNotWriteGpuBuffer"}
        /\ ret.step = NoStep <=> ret.result = "Ok"

----------------------------------------------------------------------------
\* GpuImage: layouts, staged writes and mip generation

\* Largest extent of an image and the most mip levels it is created with.
MaxImageWidth == 17
MaxImageHeight == 5
MaxImageDepth == 1
MaxMipLevels == 6

Layouts == {"Undefined", "TransferSrcOptimal", "TransferDstOptimal", "ShaderReadOnlyOptimal"}

\* to_i32 of a u32: the value as a 32-bit signed integer (v - 2^32 from 2^31 on).
to_i32(v) == IF v <= 2147483647 THEN v ELSE ((v - 2147483647) - 2147483647) - 2

Barrier(baseMipLevel, levelCount, oldLayout, newLayout) ==
    [kind |-> "pipelineBarrier2", baseMipLevel |-> baseMipLevel, levelCount |-> levelCount,
     oldLayout |-> oldLayout, newLayout |-> newLayout,
     srcAccess |-> "eNone", dstAccess |-> "eNone"]

\* The access masks set_image_src and set_image_dst give a barrier; a barrier
\* keeps the default, no access, on a side that is not set.
Accesses(barrier, srcAccess, dstAccess) ==
    [barrier EXCEPT !.srcAccess = srcAccess, !.dstAccess = dstAccess]

\* BarrierBuilder::add_image_barrier followed by set_image_dst only: the source
\* keeps its default, the undefined layout.
BarrierFromDefault(baseMipLevel, levelCount, newLayout) ==
    Barrier(baseMipLevel, levelCount, "Undefined", newLayout)

Halve_Unguarded(v) == v \div 2

\* if (mip_offset.x > 1) mip_offset.x /= 2;
Halve(v) == IF v > 1 THEN v \div 2 ELSE v

\* mip_offset after `level` iterations of the loop.
RECURSIVE mip_offset(_, _)
mip_offset(extent, level) ==
    IF level = 0 THEN <<to_i32(extent[1]), to_i32(extent[2]), to_i32(extent[3])>>
    ELSE LET before == mip_offset(extent, level - 1)
         IN <<Halve(before[1]), Halve(before[2]), Halve(before[3])>>

\* vk::ImageBlit2 region of one loop iteration: srcOffsets[1] is mip_offset before
\* the halving, dstOffsets[1] after it; srcOffsets[0] and dstOffsets[0] are zero.
ImageBlit2(extent, level) ==
    [kind |-> "blitImage2", srcLevel |-> level, dstLevel |-> level + 1,
     srcOffsets |-> mip_offset(extent, level), dstOffsets |-> mip_offset(extent, level + 1)]

\* An iteration that blits before it moves the destination level to
\* transfer-destination.
MipLevelCommands_BlitFirst(extent, level) ==
    << ImageBlit2(extent, level),
       Accesses(BarrierFromDefault(level + 1, 1, "TransferDstOptimal"), "eNone", "eTransferWrite"),
       Accesses(Barrier(level + 1, 1, "TransferDstOptimal", "TransferSrcOptimal"),
                "eTransferWrite", "eTransferRead") >>

\* An iteration that leaves the destination level in transfer-destination.
MipLevelCommands_NoReadBarrier(extent, level) ==
    << Accesses(BarrierFromDefault(level + 1, 1, "TransferDstOptimal"), "eNone", "eTransferWrite"),
       ImageBlit2(extent, level) >>

\* One iteration of the loop over the levels, and the iterations up to `level`.
MipLevelCommands(extent, level) ==
    << Accesses(BarrierFromDefault(level + 1, 1, "TransferDstOptimal"), "eNone", "eTransferWrite"),
       ImageBlit2(extent, level),
       Accesses(Barrier(level + 1, 1, "TransferDstOptimal", "TransferSrcOptimal"),
                "eTransferWrite", "eTransferRead") >>

RECURSIVE MipLoop(_, _)
MipLoop(extent, levels) ==
    IF levels = 0 THEN <<>>
    ELSE MipLoop(extent, levels - 1) \o MipLevelCommands(extent, levels - 1)

\* What generate_mipmaps_result records into the single-time command buffer.
MipCommands(extent, mip_levels, final_layout) ==
    << Accesses(BarrierFromDefault(0, 1, "TransferSrcOptimal"), "eNone", "eTransferRead") >>
    \o MipLoop(extent, mip_levels - 1)
    \o << Accesses(Barrier(0, mip_levels, "TransferSrcOptimal", final_layout),
                   "eTransferRead", "eNone") >>

\* What StagingGpuImage::write records for subresource = {aspect, baseMipLevel,
\* levelCount, 0, 1}: the copy goes to mip level 0, .imageSubresource being
\* {subresource.aspectMask, 0, 0, 1}.
WriteCommands(baseMipLevel, levelCount, final_layout) ==
    << Accesses(BarrierFromDefault(baseMipLevel, levelCount, "TransferDstOptimal"),
                "eNone", "eTransferWrite"),
       [kind |-> "copyBufferToImage2", dstLevel |-> 0],
       Accesses(Barrier(baseMipLevel, levelCount, "TransferDstOptimal", final_layout),
                "eTransferWrite", "eNone") >>

\* What GpuImage::create_result records when a layout is asked for.
CreateCommands(layout) == << BarrierFromDefault(0, 1, layout) >>

LevelsOf(c) == c.baseMipLevel .. (c.baseMipLevel + c.levelCount - 1)

\* The device executing one command on the levels of an image. A barrier whose
\* source layout is undefined lets the device discard what the levels hold
\* (`discard`); a blit or copy makes the destination hold what the source held.
Execute(c, img, discard) ==
    IF c.kind = "pipelineBarrier2"
    THEN [img EXCEPT
            !.layout = [l \in DOMAIN img.layout |->
                          IF l \in LevelsOf(c) THEN c.newLayout ELSE img.layout[l]],
            !.contents = [l \in DOMAIN img.contents |->
                          IF l \in LevelsOf(c) /\ c.oldLayout = "Undefined" /\ discard
                          THEN "undefined" ELSE img.contents[l]]]
    ELSE IF c.kind = "blitImage2"
    THEN IF c.dstLevel \in DOMAIN img.contents
         THEN [img EXCEPT !.contents[c.dstLevel] = img.contents[c.srcLevel]]
         ELSE img
    ELSE [img EXCEPT !.contents[c.dstLevel] = "pixels"]

RECURSIVE ExecuteAll(_, _, _)
ExecuteAll(cmds, img, discard) ==
    IF cmds = <<>> THEN img
    ELSE ExecuteAll(Tail(cmds), Execute(Head(cmds), img, discard), discard)

\* Each recorded command together with the layouts its levels are in when the
\* device reaches it.
RECURSIVE Annotated(_, _)
Annotated(cmds, img) ==
    IF cmds = <<>> THEN <<>>
    ELSE LET c == Head(cmds)
             actual == IF c.kind = "pipelineBarrier2"
                       THEN {img.layout[l] : l \in LevelsOf(c) \cap DOMAIN img.layout}
                       ELSE {}
             at(l) == IF l \in DOMAIN img.layout THEN img.layout[l] ELSE "none"
             src == IF c.kind = "blitImage2" THEN at(c.srcLevel) ELSE "none"
             dst == IF c.kind \in {"blitImage2", "copyBufferToImage2"} THEN at(c.dstLevel)
                    ELSE "none"
         IN << [command |-> c, actual |-> actual, src |-> src, dst |-> dst] >>
            \o Annotated(Tail(cmds), Execute(c, img, FALSE))

\* The driver calls of begin_single_time_commands and end_single_time_commands in
\* program order; the fence, once created, is destroyed by a defer.
HelperCallNames == <<"allocateCommandBuffers", "begin", "end", "createFence", "submit",
                     "waitForFences", "freeCommandBuffers">>

CallIndex(step) == CHOOSE k \in 1 .. Len(HelperCallNames) : HelperCallNames[k] = step

\* The calls one submit_single_time_commands makes when `failAt` is the call that
\* fails: those before it, the failing call itself, and the deferred destroyFence.
HelperCalls(failAt) ==
    IF failAt = NotCalled THEN <<>>
    ELSE IF failAt = NoStep THEN HelperCallNames \o <<"destroyFence">>
    ELSE SubSeq(HelperCallNames, 1, CallIndex(failAt))
         \o (IF CallIndex(failAt) > CallIndex("createFence") THEN <<"destroyFence">> ELSE <<>>)

\* The callback of submit_single_time_commands runs between begin and end.
CallbackRan(failAt) == failAt \notin {NotCalled, "allocateCommandBuffers", "begin"}

Helper(failAt) == [NotBegun EXCEPT !.calls = HelperCalls(failAt)]

ImageReturns(op, result, step) ==
    /\ ret' = Ret(op, result, step, IF result = "Ok" THEN "Success" ELSE "failure")
    /\ UNCHANGED aborted

\* One submit_single_time_commands recording `cmds` for the image `img`.
SubmitImageCommands(cmds, img, failAt, discard) ==
    /\ recorded' = IF CallbackRan(failAt) THEN Annotated(cmds, img) ELSE <<>>
    /\ single_time' = Helper(failAt)

FinalLayouts == {"ShaderReadOnlyOptimal", "TransferSrcOptimal"}
ImageExtents == (1 .. MaxImageWidth) \X (1 .. MaxImageHeight) \X (1 .. MaxImageDepth)

CreateFailures == {"StagingGpuImage::create", "createImageView"} \cup SubmitSteps \cup {NoStep}

\* The enumerators of VkImageType and of vk::ImageViewType in the order of their
\* values, the first having value 0.
VkImageType == <<"VK_IMAGE_TYPE_1D", "VK_IMAGE_TYPE_2D", "VK_IMAGE_TYPE_3D">>
ImageViewType == <<"e1D", "e2D", "e3D", "eCube">>

\* static_cast between an enumerator and its integer value
EnumValue(enum, name) == (CHOOSE i \in DOMAIN enum : enum[i] = name) - 1
EnumName(enum, value) == IF value + 1 \in DOMAIN enum THEN enum[value + 1] ELSE "invalid"

\* image_info.imageType of StagingGpuImage::create: VK_IMAGE_TYPE_3D, lowered by
\* one when depth is 1 and by one more when height is 1 as well.
ImageTypeOf(extent) ==
    LET dimensions == EnumValue(VkImageType, "VK_IMAGE_TYPE_3D")
    IN EnumName(VkImageType,
                IF extent[3] = 1
                THEN IF extent[2] = 1 THEN (dimensions - 1) - 1 ELSE dimensions - 1
                ELSE dimensions)

\* A view type lowered for height 1 whatever the depth.
ViewTypeOf_Unnested(extent) ==
    LET dimensions == EnumValue(ImageViewType, "e3D")
        afterDepth == IF extent[3] = 1 THEN dimensions - 1 ELSE dimensions
    IN EnumName(ImageViewType, IF extent[2] = 1 THEN afterDepth - 1 ELSE afterDepth)

\* .viewType of GpuImage::create_result: vk::ImageViewType::e3D, lowered by one
\* when depth is 1 and by one more when height is 1 as well.
ViewTypeOf(extent) ==
    LET dimensions == EnumValue(ImageViewType, "e3D")
    IN EnumName(ImageViewType,
                IF extent[3] = 1
                THEN IF extent[2] = 1 THEN (dimensions - 1) - 1 ELSE dimensions - 1
                ELSE dimensions)

\* GpuImage::create_result(engine, config), config = {extent, ..., mip_levels, layout}
create_result(extent, mip_levels, layout, failAt) ==
    LET fresh == [extent |-> extent, mip_levels |-> mip_levels, arrayLayers |-> 1,
                  layout |-> [l \in 0 .. (mip_levels - 1) |-> "Undefined"],
                  contents |-> [l \in 0 .. (mip_levels - 1) |-> "undefined"],
                  imageType |-> ImageTypeOf(extent), viewType |-> ViewTypeOf(extent)]
        cmds == CreateCommands(layout)
        op == "GpuImage::create"
    IN /\ ~aborted
       /\ image = NotCreated
       /\ lastImageCall' = ImageCall(extent, layout, TRUE)
       /\ UNCHANGED <<engineVars, windowVars, selectVars, swapVars, bufVars,
                      surface_capabilities, swapchain_info>>
       /\ IF failAt = "StagingGpuImage::create"
          THEN /\ ImageReturns(op, "CouldNotCreateGpuImage", failAt)
               /\ UNCHANGED <<image, recorded, single_time>>
          ELSE IF failAt = "createImageView"
          THEN /\ ImageReturns(op, "CouldNotCreateGpuImageView", failAt)
               /\ UNCHANGED <<image, recorded, single_time>>
          ELSE IF layout = "Undefined"
          THEN /\ ImageReturns(op, "Ok", NoStep)
               /\ image' = fresh
               /\ UNCHANGED <<recorded, single_time>>
          ELSE /\ SubmitImageCommands(cmds, fresh, failAt, FALSE)
               /\ IF failAt # NoStep
                  THEN /\ ImageReturns(op, "CouldNotCreateGpuImage", "submit_single_time_commands")
                       /\ UNCHANGED image
                  ELSE /\ ImageReturns(op, "Ok", NoStep)
                       /\ image' = ExecuteAll(cmds, fresh, FALSE)

ImageWriteFailures == {"create_result", "write_result"} \cup SubmitSteps \cup {NoStep}

\* StagingGpuImage::write(engine, data, final_layout, subresource) on the image,
\* subresource = {aspect, baseMipLevel, levelCount, 0, 1} being levels of the image
StagingGpuImage_write(final_layout, baseMipLevel, levelCount, failAt, discard) ==
    LET cmds == WriteCommands(baseMipLevel, levelCount, final_layout)
        op == "StagingGpuImage::write"
    IN /\ ~aborted
       /\ image # NotCreated
       /\ baseMipLevel \in 0 .. (image.mip_levels - 1)
       /\ levelCount \in 1 .. (image.mip_levels - baseMipLevel)
       /\ lastImageCall' = ImageCall(<<0, 0, 0>>, final_layout, TRUE)
       /\ UNCHANGED <<engineVars, windowVars, selectVars, swapVars, bufVars,
                      surface_capabilities, swapchain_info>>
       /\ IF failAt = "create_result"
          THEN /\ ImageReturns(op, "CouldNotCreateGpuBuffer", failAt)
               /\ UNCHANGED <<image, recorded, single_time>>
          ELSE IF failAt = "write_result"
          THEN /\ ImageReturns(op, "CouldNotWriteGpuBuffer", failAt)
               /\ UNCHANGED <<image, recorded, single_time>>
          ELSE /\ SubmitImageCommands(cmds, image, failAt, discard)
               /\ image' = IF Submitted(failAt) THEN ExecuteAll(cmds, image, discard) ELSE image
               /\ IF failAt # NoStep
                  THEN ImageReturns(op, "CouldNotWriteGpuImage", "submit_single_time_commands")
                  ELSE ImageReturns(op, "Ok", NoStep)

LinearFilterChecked_Skipped(linear) == TRUE

\* format_properties.optimalTilingFeatures & eSampledImageFilterLinear
LinearFilterChecked(linear) == linear

\* GpuImage::generate_mipmaps_result(engine, mip_levels, extent, format, final_layout),
\* called with the level count the image was created with.
generate_mipmaps_result(extent, final_layout, linear, failAt, discard) ==
    LET cmds == MipCommands(extent, image.mip_levels, final_layout)
        op == "GpuImage::generate_mipmaps"
    IN /\ ~aborted
       /\ image # NotCreated
       /\ lastImageCall' = ImageCall(extent, final_layout, linear)
       /\ UNCHANGED <<engineVars, windowVars, selectVars, swapVars, bufVars,
                      surface_capabilities, swapchain_info>>
       /\ IF image.mip_levels <= 1
          THEN /\ Fatal(op, "ASSERT(mip_levels > 1)")
               /\ UNCHANGED <<image, recorded, single_time>>
          ELSE IF ~LinearFilterChecked(linear)
          THEN /\ ImageReturns(op, "CouldNotGenerateMipmaps", "getFormatProperties")
               /\ recorded' = <<>>
               /\ single_time' = Helper(NotCalled)
               /\ UNCHANGED image
          ELSE /\ SubmitImageCommands(cmds, image, failAt, discard)
               /\ image' = IF Submitted(failAt) THEN ExecuteAll(cmds, image, discard) ELSE image
               /\ IF failAt # NoStep
                  THEN ImageReturns(op, "CouldNotGenerateMipmaps", "submit_single_time_commands")
                  ELSE ImageReturns(op, "Ok", NoStep)

----------------------------------------------------------------------------
\* One image of the largest extent created with every level count and layout
\* within the bounds, then written and given its mip chain in any order, with
\* every driver answer.

ImageInit ==
    /\ FrameLoopIdle
    /\ gpus = <<SuitableGpu>>
    /\ queue_families = SuitableGpu.families
    /\ selection = NotSelected
    /\ NoSwapchain
    /\ NoBuffer
    /\ NoGpuImage

LargestExtent == <<MaxImageWidth, MaxImageHeight, MaxImageDepth>>

\* Most mip levels of the image whose layouts are followed over several operations.
MaxTrackedLevels == 3

ImageCreateCall ==
    \E mip_levels \in 1 .. MaxTrackedLevels,
       layout \in {"Undefined", "ShaderReadOnlyOptimal"}, failAt \in CreateFailures :
        /\ layout = "Undefined" => failAt \notin SubmitSteps
        /\ create_result(LargestExtent, mip_levels, layout, failAt)

ImageWriteCall ==
    \E final_layout \in FinalLayouts, baseMipLevel \in 0 .. (image.mip_levels - 1),
       failAt \in ImageWriteFailures, discard \in BOOLEAN :
      \E levelCount \in {1, image.mip_levels - baseMipLevel} :
        /\ discard => Submitted(failAt)
        /\ StagingGpuImage_write(final_layout, baseMipLevel, levelCount, failAt, discard)

\* What the device answers during one generate_mipmaps: whether the format can be
\* filtered linearly, the failing call of submit_single_time_commands, whether a
\* transition from the undefined layout discards what the level holds.
MipInputs ==
    {<<FALSE, NoStep, FALSE>>}
    \cup {<<TRUE, failAt, FALSE>> : failAt \in SubmitSteps \cup {NoStep}}
    \cup {<<TRUE, failAt, TRUE>> : failAt \in {f \in SubmitSteps \cup {NoStep} : Submitted(f)}}

GenerateMipmapsCall ==
    \E final_layout \in FinalLayouts, x \in MipInputs :
        generate_mipmaps_result(image.extent, final_layout, x[1], x[2], x[3])

ImageNext ==
    \/ ImageCreateCall
    \/ ImageWriteCall
    \/ GenerateMipmapsCall

ImageSpec == ImageInit /\ [][ImageNext]_vars

----------------------------------------------------------------------------
\* generate_mipmaps applied once, for every extent and level count within the
\* bounds, to an image whose level 0 was written.

WrittenImage(extent, mip_levels, layout) ==
    [extent |-> extent, mip_levels |-> mip_levels, arrayLayers |-> 1,
     layout |-> [l \in 0 .. (mip_levels - 1) |-> IF l = 0 THEN layout ELSE "Undefined"],
     contents |-> [l \in 0 .. (mip_levels - 1) |-> IF l = 0 THEN "pixels" ELSE "undefined"],
     imageType |-> ImageTypeOf(extent), viewType |-> ViewTypeOf(extent)]

MipInit ==
    /\ FrameLoopIdle
    /\ gpus = <<SuitableGpu>>
    /\ queue_families = SuitableGpu.families
    /\ selection = NotSelected
    /\ NoSwapchain
    /\ NoBuffer
    /\ image \in {WrittenImage(extent, n, layout) :
                    extent \in ImageExtents, n \in 1 .. MaxMipLevels, layout \in FinalLayouts}
    /\ lastImageCall = NoImageCall
    /\ recorded = <<>>
    /\ single_time = NotBegun
    /\ surface_capabilities = [minImageCount |-> 1, maxImageCount |-> 0]
    /\ swapchain_info = [minImageCount |-> 0]

GenerateMipmapsOnce ==
    /\ ret.op = "none"
    /\ \E final_layout \in FinalLayouts, x \in MipInputs :
          generate_mipmaps_result(image.extent, final_layout, x[1], x[2], x[3])

MipNext == GenerateMipmapsOnce

MipSpec == MipInit /\ [][MipNext]_vars

----------------------------------------------------------------------------
\* Properties of mip generation

Blits(cmds) == SelectSeq(cmds, LAMBDA c : c.command.kind = "blitImage2")

HalvedWithFloorOne(v) == IF v \div 2 < 1 THEN 1 ELSE v \div 2

MipmapsRecorded == ret.op = "GpuImage::generate_mipmaps" /\ recorded # <<>>

\* C22: generate_mipmaps, for every starting extent with all dimensions >= 1 and
\* every level count, blits level k into level k+1 for each k in turn; the first
\* source extent is the extent given, each destination extent is the source extent
\* with every axis halved on its own and floored at 1, the next source extent is
\* that destination extent, and no source or destination extent has a zero
\* dimension.
C22_MipExtentsHalveWithFloorOne ==
    MipmapsRecorded =>
        LET blits == Blits(recorded)
        IN /\ Len(blits) = image.mip_levels - 1
           /\ \A k \in 1 .. Len(blits) :
                LET b == blits[k].command
                IN /\ b.srcLevel = k - 1
                   /\ b.dstLevel = k
                   /\ b.srcOffsets = IF k = 1 THEN lastImageCall.extent
                                      ELSE blits[k - 1].command.dstOffsets
                   /\ \A i \in 1 .. 3 :
                        /\ b.dstOffsets[i] = HalvedWithFloorOne(b.srcOffsets[i])
                        /\ b.srcOffsets[i] >= 1
                        /\ b.dstOffsets[i] >= 1

\* The chain of the largest extent over the most levels was recorded: it contains
\* an odd dimension that is halved and a dimension at 1 that is blitted again.
C22_Witness ==
    /\ ret.op = "GpuImage::generate_mipmaps"
    /\ ret.result = "Ok"
    /\ lastImageCall.extent = LargestExtent
    /\ Len(Blits(recorded)) = MaxMipLevels - 1
    /\ \E k \in 1 .. Len(Blits(recorded)) :
          LET b == Blits(recorded)[k].command
          IN b.srcOffsets[2] = 1 /\ b.dstOffsets[2] = 1 /\ b.srcOffsets[1] > 1

MipmapsUnsupported ==
    /\ ret.op = "GpuImage::generate_mipmaps"
    /\ ret.result # "Fatal"
    /\ ~lastImageCall.linear

\* C23: a generate_mipmaps for a format the device cannot filter linearly returns
\* an error, makes none of the single-time helper's calls (no command buffer is
\* allocated, recorded or submitted) and leaves every level's layout and contents
\* as they were.
C23_UnsupportedFilterFailsBeforeAnyCommand ==
    [][MipmapsUnsupported' =>
          /\ ret'.result = "CouldNotGenerateMipmaps"
          /\ recorded' = <<>>
          /\ single_time'.calls = <<>>
          /\ image' = image]_vars

C23_Witness == MipmapsUnsupported /\ image.mip_levels = MaxMipLevels /\ image.contents[0] = "pixels"

Barriers(cmds) == SelectSeq(cmds, LAMBDA c : c.command.kind = "pipelineBarrier2")

\* C26 as stated: in every create, write and generate_mipmaps, each barrier names as
\* its source layout the layout its levels are actually in, and a level that held
\* pixels still holds them after the operation (level 0 is not discarded before the
\* mip chain is blitted from it).
C26_BarrierSourceIsTrackedLayout ==
    /\ [](\A k \in 1 .. Len(Barriers(recorded)) :
            Barriers(recorded)[k].actual = {Barriers(recorded)[k].command.oldLayout})
    /\ [][\A l \in DOMAIN image.contents :
             image.contents[l] = "pixels" => image'.contents[l] = "pixels"]_vars

----------------------------------------------------------------------------
\* The single-time command helper, call by call, and the queue it submits to

\* Most single-time command buffers begun in one behaviour.
MaxSingleTimeRuns == 3

Begun == Cardinality({k \in DOMAIN single_time.calls : single_time.calls[k] = "allocateCommandBuffers"})

HelperReturns(op, result, step) ==
    /\ ret' = Ret(op, result, step, IF result = "Ok" THEN "Success" ELSE "failure")
    /\ UNCHANGED <<aborted, engineVars, windowVars, selectVars, swapVars, bufVars,
                   image, lastImageCall, recorded, surface_capabilities, swapchain_info>>

\* begin_single_time_commands(engine)
begin_single_time_commands(failAt) ==
    LET op == "begin_single_time_commands"
    IN /\ ~aborted
       /\ single_time.pc = "idle"
       /\ Begun < MaxSingleTimeRuns
       /\ IF failAt = "allocateCommandBuffers"
          THEN /\ HelperReturns(op, "CouldNotAllocateVkCommandBuffers", failAt)
               /\ single_time' = [single_time EXCEPT !.calls = @ \o <<"allocateCommandBuffers">>]
          ELSE IF failAt = "begin"
          THEN /\ HelperReturns(op, "CouldNotBeginVkCommandBuffer", failAt)
               /\ single_time' = [single_time EXCEPT !.calls = @ \o <<"allocateCommandBuffers", "begin">>]
          ELSE /\ HelperReturns(op, "Ok", NoStep)
               /\ single_time' = [single_time EXCEPT
                                    !.calls = @ \o <<"allocateCommandBuffers", "begin">>,
                                    !.pc = "recording"]

\* end_single_time_commands(engine, cmd) up to its fence wait: cmd.end(),
\* createFence, defer(destroyFence), queue.submit(cmd, fence).
end_single_time_commands_submit(failAt) ==
    LET op == "end_single_time_commands"
    IN /\ ~aborted
       /\ single_time.pc = "recording"
       /\ IF failAt = "end"
          THEN /\ HelperReturns(op, "CouldNotEndVkCommandBuffer", failAt)
               /\ single_time' = [single_time EXCEPT !.calls = @ \o <<"end">>, !.pc = "idle"]
          ELSE IF failAt = "createFence"
          THEN /\ HelperReturns(op, "CouldNotCreateVkFence", failAt)
               /\ single_time' = [single_time EXCEPT
                                    !.calls = @ \o <<"end", "createFence">>, !.pc = "idle"]
          ELSE IF failAt = "submit"
          THEN /\ HelperReturns(op, "CouldNotSubmitVkCommandBuffer", failAt)
               /\ single_time' = [single_time EXCEPT
                                    !.calls = @ \o <<"end", "createFence", "submit", "destroyFence">>,
                                    !.pc = "idle"]
          ELSE /\ UNCHANGED <<aborted, ret, engineVars, windowVars, selectVars, swapVars, bufVars,
                              image, lastImageCall, recorded, surface_capabilities, swapchain_info>>
               /\ single_time' = [single_time EXCEPT
                                    !.calls = @ \o <<"end", "createFence", "submit">>,
                                    !.pc = "waiting",
                                    !.fence = "unsignaled",
                                    !.work = @ + 1]

WaitForSingleTimeFence_NoWait(w) == TRUE

\* waitForFences({fence.value}, vk::True, UINT64_MAX): returns success only once
\* the fence is signaled, however long that takes.
WaitForSingleTimeFence(w) == w = "Success" => single_time.fence = "signaled"

\* end_single_time_commands from its fence wait on: waitForFences,
\* freeCommandBuffers, and the deferred destroyFence.
end_single_time_commands_wait(w) ==
    LET op == "end_single_time_commands"
    IN /\ ~aborted
       /\ single_time.pc = "waiting"
       /\ WaitForSingleTimeFence(w)
       /\ IF w # "Success"
          THEN /\ HelperReturns(op, "CouldNotWaitForVkFence", "waitForFences")
               /\ single_time' = [single_time EXCEPT
                                    !.calls = @ \o <<"waitForFences", "destroyFence">>,
                                    !.pc = "idle", !.fence = "none"]
          ELSE /\ HelperReturns(op, "Ok", NoStep)
               /\ single_time' = [single_time EXCEPT
                                    !.calls = @ \o <<"waitForFences", "freeCommandBuffers", "destroyFence">>,
                                    !.pc = "idle", !.fence = "none"]

\* The queue completes the oldest submitted command buffer; the fence given with
\* the last submission is signaled when that submission completes.
GpuCompletesSingleTime ==
    /\ ~aborted
    /\ single_time.work > 0
    /\ single_time' = [single_time EXCEPT
                         !.work = @ - 1,
                         !.fence = IF single_time.work = 1 /\ @ = "unsignaled" THEN "signaled" ELSE @]
    /\ UNCHANGED <<aborted, ret, engineVars, windowVars, selectVars, swapVars, bufVars,
                   image, lastImageCall, recorded, surface_capabilities, swapchain_info>>

HelperInit ==
    /\ FrameLoopIdle
    /\ gpus = <<SuitableGpu>>
    /\ queue_families = SuitableGpu.families
    /\ selection = NotSelected
    /\ NoSwapchain
    /\ NoBuffer
    /\ NoGpuImage

BeginSingleTimeCall ==
    \E failAt \in {"allocateCommandBuffers", "begin", NoStep} : begin_single_time_commands(failAt)

EndSingleTimeSubmits ==
    \E failAt \in {"end", "createFence", "submit", NoStep} : end_single_time_commands_submit(failAt)

EndSingleTimeWaits == \E w \in CallResults : end_single_time_commands_wait(w)

HelperNext ==
    \/ BeginSingleTimeCall
    \/ EndSingleTimeSubmits
    \/ EndSingleTimeWaits
    \/ GpuCompletesSingleTime

HelperSpec == HelperInit /\ [][HelperNext]_vars

LastCalls(n) ==
    LET calls == single_time.calls
    IN IF Len(calls) < n THEN <<>> ELSE SubSeq(calls, Len(calls) - n + 1, Len(calls))

EndReturnedOk == ret.op = "end_single_time_commands" /\ ret.result = "Ok"

\* C25: whenever end_single_time_commands has returned success, the calls made
\* since recording began are, in this order, end recording, create fence, submit
\* signaling that fence, wait for the fence, free the command buffer, destroy the
\* fence; and every command buffer submitted has completed on the device.
C25_SingleTimeHelperIsSynchronous ==
    EndReturnedOk =>
        /\ LastCalls(6) = <<"end", "createFence", "submit", "waitForFences",
                            "freeCommandBuffers", "destroyFence">>
        /\ single_time.work = 0
        /\ single_time.pc = "idle"

\* A helper run returned success after an earlier run's wait had failed with its
\* command buffer still pending.
C25_Witness ==
    /\ EndReturnedOk
    /\ \E k \in 1 .. (Len(single_time.calls) - 1) :
          single_time.calls[k] = "waitForFences" /\ single_time.calls[k + 1] = "destroyFence"

\* The calls of a finished unsuccessful run are those HelperCalls names.
HelperCallsAgree ==
    (single_time.pc = "idle" /\ ret.op \in {"begin_single_time_commands", "end_single_time_commands"}) =>
        LET calls == HelperCalls(ret.step) IN LastCalls(Len(calls)) = calls

----------------------------------------------------------------------------
\* GpuImage::create_cubemap: six layers copied out of one cross-layout image

\* Largest width and height of the image ImageData::load returns.
MaxCrossWidth == 9
MaxCrossHeight == 7

CubemapCells_FirstRepeated == << <<0, 1>>, <<0, 1>>, <<1, 0>>, <<1, 2>>, <<1, 1>>, <<3, 1>> >>

\* The multipliers of data->width / 4 and data->height / 3 in std::array copies,
\* in the order of the array: entry k is copied into layer k - 1.
CubemapCells == << <<2, 1>>, <<0, 1>>, <<1, 0>>, <<1, 2>>, <<1, 1>>, <<3, 1>> >>

\* const vk::Extent3D extent = {staging_extent.width / 4, staging_extent.height / 3, 1};
CubeExtent(width, height) == <<width \div 4, height \div 3, 1>>

\* vk::ImageCopy2 number k of std::array copies.
ImageCopy2(width, height, k) ==
    [kind |-> "copyImage2", dstLevel |-> 0,
     srcOffset |-> <<(width * CubemapCells[k][1]) \div 4, (height * CubemapCells[k][2]) \div 3, 0>>,
     dstLayer |-> k - 1,
     extent |-> CubeExtent(width, height)]

\* A barrier of create_cubemap covers mip level 0 of all six layers.
CubemapCommands(width, height) ==
    << Accesses(BarrierFromDefault(0, 1, "TransferDstOptimal"), "eNone", "eTransferWrite") >>
    \o [k \in 1 .. Len(CubemapCells) |-> ImageCopy2(width, height, k)]
    \o << Accesses(Barrier(0, 1, "TransferDstOptimal", "ShaderReadOnlyOptimal"),
                   "eTransferWrite", "eShaderRead") >>

CubemapFailures ==
    {"ImageData::load", "StagingGpuImage::create", "StagingGpuImage::write", "vmaCreateImage",
     "createImageView"} \cup SubmitSteps \cup {NoStep}

\* The error create_cubemap returns when `failAt` fails: that of the callee for the
\* first three, its own for the others.
CubemapErr(failAt) ==
    CASE failAt = "ImageData::load" -> "ImageData::load failed"
      [] failAt = "StagingGpuImage::create" -> "CouldNotCreateGpuImage"
      [] failAt = "StagingGpuImage::write" -> "CouldNotWriteGpuImage"
      [] failAt = "vmaCreateImage" -> "CouldNotCreateGpuImage"
      [] failAt = "createImageView" -> "CouldNotCreateGpuImageView"
      [] failAt \in SubmitSteps -> "CouldNotWriteGpuImage"
      [] OTHER -> "Ok"

\* GpuImage::create_cubemap(engine, path), path naming an image of width x height
create_cubemap(width, height, failAt) ==
    LET extent == CubeExtent(width, height)
        fresh == [extent |-> extent, mip_levels |-> 1, arrayLayers |-> 6,
                  layout |-> [l \in {0} |-> "Undefined"],
                  contents |-> [l \in {0} |-> "undefined"],
                  imageType |-> "VK_IMAGE_TYPE_2D", viewType |-> "eCube"]
        cmds == CubemapCommands(width, height)
        op == "GpuImage::create_cubemap"
    IN /\ ~aborted
       /\ image = NotCreated
       /\ lastImageCall' = ImageCall(<<width, height, 1>>, "ShaderReadOnlyOptimal", TRUE)
       /\ UNCHANGED <<engineVars, windowVars, selectVars, swapVars, bufVars,
                      surface_capabilities, swapchain_info>>
       /\ ImageReturns(op, CubemapErr(failAt), IF failAt \in SubmitSteps
                                               THEN "submit_single_time_commands" ELSE failAt)
       /\ IF failAt \in SubmitSteps \cup {NoStep}
          THEN /\ SubmitImageCommands(cmds, fresh, failAt, FALSE)
               /\ image' = IF failAt = NoStep THEN ExecuteAll(cmds, fresh, FALSE) ELSE image
          ELSE UNCHANGED <<image, recorded, single_time>>

CubemapInit ==
    /\ FrameLoopIdle
    /\ gpus = <<SuitableGpu>>
    /\ queue_families = SuitableGpu.families
    /\ selection = NotSelected
    /\ NoSwapchain
    /\ NoBuffer
    /\ NoGpuImage

CreateCubemapCall ==
    /\ ret.op = "none"
    /\ \E width \in 1 .. MaxCrossWidth, height \in 1 .. MaxCrossHeight, failAt \in CubemapFailures :
          create_cubemap(width, height, failAt)

CubemapNext == CreateCubemapCall

CubemapSpec == CubemapInit /\ [][CubemapNext]_vars

Copies(cmds) == SelectSeq(cmds, LAMBDA c : c.command.kind = "copyImage2")

CubemapRecorded ==
    /\ ret.op = "GpuImage::create_cubemap"
    /\ recorded # <<>>
    /\ lastImageCall.extent[1] >= 4
    /\ lastImageCall.extent[2] >= 3

\* C24: create_cubemap on an image of width W >= 4 and height H >= 3 records six
\* copies of extent (W/4, H/3, 1), the k-th into layer k, from the offsets
\* (W*col/4, H*row/3) with (col,row) = (2,1), (0,1), (1,0), (1,2), (1,1), (3,1),
\* which for a cross layout (W a multiple of 4, H a multiple of 3) are the cells
\* at those columns and rows; the six layers are pairwise distinct, the six source
\* offsets are pairwise distinct, every source region lies inside the W x H image,
\* and the image returned has six layers of that extent.
C24_CubemapFacesFromCrossCells ==
    CubemapRecorded =>
        LET W == lastImageCall.extent[1]
            H == lastImageCall.extent[2]
            copies == Copies(recorded)
            col == <<2, 0, 1, 1, 1, 3>>
            row == <<1, 1, 0, 2, 1, 1>>
        IN /\ Len(copies) = 6
           /\ \A k \in 1 .. 6 :
                LET c == copies[k].command
                IN /\ c.dstLayer = k - 1
                   /\ c.extent = <<W \div 4, H \div 3, 1>>
                   /\ c.srcOffset = <<(W * col[k]) \div 4, (H * row[k]) \div 3, 0>>
                   /\ (W % 4 = 0 /\ H % 3 = 0) =>
                         c.srcOffset = <<col[k] * c.extent[1], row[k] * c.extent[2], 0>>
                   /\ c.srcOffset[1] >= 0 /\ c.srcOffset[1] + c.extent[1] <= W
                   /\ c.srcOffset[2] >= 0 /\ c.srcOffset[2] + c.extent[2] <= H
                   /\ c.extent[1] >= 1 /\ c.extent[2] >= 1
           /\ \A j, k \in 1 .. 6 :
                j # k => /\ copies[j].command.dstLayer # copies[k].command.dstLayer
                         /\ copies[j].command.srcOffset # copies[k].command.srcOffset
           /\ ret.result = "Ok" =>
                 /\ image.arrayLayers = 6
                 /\ image.extent = <<W \div 4, H \div 3, 1>>

\* A cubemap was returned for the largest image within the bounds.
C24_Witness ==
    /\ CubemapRecorded
    /\ ret.result = "Ok"
    /\ lastImageCall.extent[1] = MaxCrossWidth
    /\ lastImageCall.extent[2] = MaxCrossHeight
    /\ image.arrayLayers = 6

----------------------------------------------------------------------------
\* Properties of the blocking calls and of the swapchain image count

FenceWaitTimesOut ==
    \E x \in BeginInputs :
        x[1] = "Timeout" /\ BeginFramePre /\ begin_frame(x[1], x[2], x[3], x[4], x[5])

\* C27 as stated: begin_frame waits for nothing but its slot's fence, and for that
\* at most one second: once the fence is signaled it needs no further wait, a
\* swapchain image being free for the acquisition to hand out at once; and a
\* fence wait that times out returns the error CouldNotWaitForVkFence with the
\* fence, the swapchain images and the recording flag as they were.
C27_BeginFrameWaitsOnlyForItsFence ==
    /\ []((windowLive /\ ~aborted /\ ~m_recording /\ fence[is_frame_finished]) =>
            \E k \in Images : imageState[k] = "free")
    /\ [][FenceWaitTimesOut =>
            /\ ret'.result = "CouldNotWaitForVkFence"
            /\ UNCHANGED <<fence, imageState, imgAvail, m_recording, m_current_image_index>>]_vars

\* C28 as stated: once the caller has answered an error or the out-of-date signal of
\* begin_frame or end_frame with a resize that succeeded, the frame loop can go
\* on: while the window is not recording, the current slot's frame-finished fence
\* is signaled or a command buffer already submitted for that slot will signal it.
C28_FenceSignaledOrPendingAfterResize ==
    (windowLive /\ ~aborted /\ ~m_recording /\ ret.op = "Window::resize" /\ ret.result = "Ok") =>
        (fence[is_frame_finished] \/ Pending(is_frame_finished))

WindowCreated == ~windowLive /\ windowLive' /\ ret'.op = "Window::create" /\ ret'.result = "Ok"

\* C29: a successful Window::create leaves the fence of every slot signaled and
\* the frame index at slot 0, and from then on a slot's fence becomes unsignaled
\* only by the reset of a begin_frame on that slot whose fence wait has passed: so
\* the first begin_frame on each of the N slots finds its fence signaled, whatever
\* the device has or has not completed.
C29_FirstFramesDoNotWait ==
    [][/\ WindowCreated => (m_current_frame_index' = 0 /\ \A i \in Slots : fence'[i])
       /\ \A i \in Slots :
            (windowLive /\ windowLive' /\ fence[i] /\ ~fence'[i]) =>
                /\ i = m_current_frame_index
                /\ ret'.op = "begin_frame"
                /\ ret'.step \notin {"waitForFences", "resetFences"}]_vars

\* N frames were begun, one per slot, and the device has completed none of them.
C29_Witness ==
    /\ m_recording
    /\ ret.op = "begin_frame"
    /\ m_current_frame_index = MaxFramesInFlight - 1
    /\ Len(gpuQueue) = MaxFramesInFlight - 1
    /\ \A i \in Slots : ~fence[i]

----------------------------------------------------------------------------
\* The image count Window::resize asks createSwapchainKHR for

\* Size of Window::m_swapchain_images; declared in hg_vulkan_engine.h.
MaxSwapchainImages == 8

\* Largest image count a surface reports as its minimum or maximum.
MaxReportedImages == 10

\* std::min(a, b)
std_min(a, b) == IF b < a THEN b ELSE a

\* .minImageCount = surface_capabilities.maxImageCount == 0 ? MaxSwapchainImages
\*     : std::min(surface_capabilities.minImageCount + 1, surface_capabilities.maxImageCount)
RequestedImageCount(capabilities) ==
    IF capabilities.maxImageCount = 0
    THEN MaxSwapchainImages
    ELSE std_min(capabilities.minImageCount + 1, capabilities.maxImageCount)

\* What getSurfaceCapabilitiesKHR can report: at least one image, and a maximum
\* that is 0 (no limit) or not below the minimum.
SurfaceCapabilities ==
    {[minImageCount |-> lo, maxImageCount |-> hi] :
        lo \in 1 .. MaxReportedImages, hi \in 0 .. MaxReportedImages} \
    {c \in [minImageCount : 1 .. MaxReportedImages, maxImageCount : 1 .. MaxReportedImages] :
        c.maxImageCount < c.minImageCount}

\* The vk::SwapchainCreateInfoKHR that Window::resize builds from the capabilities.
RequestSwapchain ==
    /\ ~aborted
    /\ ret.op = "none"
    /\ swapchain_info' = [minImageCount |-> RequestedImageCount(surface_capabilities)]
    /\ ret' = Ret("createSwapchainKHR", "Ok", NoStep, "Success")
    /\ UNCHANGED <<aborted, engineVars, windowVars, selectVars, swapVars, bufVars,
                   image, lastImageCall, recorded, single_time, surface_capabilities>>

\* How many images the driver may have created for the swapchain just requested:
\* at least the count asked for and at least the surface's minimum, and no more
\* than the surface's maximum when it reports one.
CreatedImageCounts ==
    LET lo == IF swapchain_info.minImageCount < surface_capabilities.minImageCount
              THEN surface_capabilities.minImageCount
              ELSE swapchain_info.minImageCount
        hi == IF surface_capabilities.maxImageCount = 0
              THEN MaxReportedImages
              ELSE surface_capabilities.maxImageCount
    IN lo .. hi

\* The two getSwapchainImagesKHR calls that end Window::resize: the first stores the
\* driver's image count in m_image_count, the second writes that many handles to
\* m_swapchain_images.data(); the count is not compared with the array's size.
getSwapchainImagesKHR(created) ==
    /\ ~aborted
    /\ ret.op = "createSwapchainKHR"
    /\ m_image_count' = created
    /\ ret' = Ret("Window::resize", "Ok", NoStep, "Success")
    /\ UNCHANGED <<aborted, engineVars, windowVars, selectVars, bufVars, imgVars>>
    /\ UNCHANGED <<m_swapchain, m_extent, m_swapchain_images, swapchains, currentExtent>>

QuerySwapchainImages == \E created \in CreatedImageCounts : getSwapchainImagesKHR(created)

CountInit ==
    /\ FrameLoopIdle
    /\ gpus = <<SuitableGpu>>
    /\ queue_families = SuitableGpu.families
    /\ selection = NotSelected
    /\ NoSwapchain
    /\ NoBuffer
    /\ image = NotCreated
    /\ lastImageCall = NoImageCall
    /\ recorded = <<>>
    /\ single_time = NotBegun
    /\ surface_capabilities \in SurfaceCapabilities
    /\ swapchain_info = [minImageCount |-> 0]

CountNext == RequestSwapchain \/ QuerySwapchainImages

CountSpec == CountInit /\ [][CountNext]_vars

\* C30 as stated: the image count resize requests equals
\* min(minImageCount + 1, maxImageCount) and lies between minImageCount and
\* maxImageCount when the surface reports a maximum, and is MaxSwapchainImages and
\* not below minImageCount when the maximum is reported as 0.
C30_RequestedImageCountWithinCapabilities ==
    ret.op = "createSwapchainKHR" =>
        LET lo == surface_capabilities.minImageCount
            hi == surface_capabilities.maxImageCount
            n == swapchain_info.minImageCount
        IN IF hi # 0
           THEN /\ n = (IF lo + 1 <= hi THEN lo + 1 ELSE hi)
                /\ lo <= n
                /\ n <= hi
           ELSE /\ n = MaxSwapchainImages
                /\ lo <= n

\* C31 as stated: after a successful resize the stored image count is at most the
\* size of m_swapchain_images, so no image handle is written past the end of the
\* array, whatever the surface reports and however many images the driver creates.
C31_ImageCountWithinArray ==
    (ret.op = "Window::resize" /\ ret.result = "Ok") => m_image_count <= MaxSwapchainImages

----------------------------------------------------------------------------
\* The image type and view type GpuImage::create derives from the extent

\* Largest width, height and depth of the images created.
MaxCreateExtent == 3

CreateExtents == (1 .. MaxCreateExtent) \X (1 .. MaxCreateExtent) \X (1 .. MaxCreateExtent)

CreateImageCall ==
    \E extent \in CreateExtents, mip_levels \in 1 .. MaxTrackedLevels,
       layout \in {"Undefined", "ShaderReadOnlyOptimal"}, failAt \in CreateFailures :
        /\ layout = "Undefined" => failAt \notin SubmitSteps
        /\ create_result(extent, mip_levels, layout, failAt)

CreateNext == CreateImageCall

CreateSpec == ImageInit /\ [][CreateNext]_vars

ImageCreated == ret.op = "GpuImage::create" /\ ret.result = "Ok"

\* C32: an image created with an extent whose components are all at least 1 has
\* image type 3D if depth > 1, otherwise 2D if height > 1, otherwise 1D, and its
\* view has the view type of the same dimensionality.
C32_DimensionalityFromExtent ==
    ImageCreated =>
        LET width == image.extent[1]
            height == image.extent[2]
            depth == image.extent[3]
            n == IF depth > 1 THEN 3 ELSE IF height > 1 THEN 2 ELSE 1
        IN /\ width >= 1 /\ height >= 1 /\ depth >= 1
           /\ image.imageType = <<"VK_IMAGE_TYPE_1D", "VK_IMAGE_TYPE_2D", "VK_IMAGE_TYPE_3D">>[n]
           /\ image.viewType = <<"e1D", "e2D", "e3D">>[n]

\* An image of height 1 and depth above 1 was created, as a 3D image with a 3D view.
C32_Witness ==
    /\ ImageCreated
    /\ image.extent[2] = 1
    /\ image.extent[3] > 1
    /\ image.imageType = "VK_IMAGE_TYPE_3D"
    /\ image.viewType = "e3D"

----------------------------------------------------------------------------
\* What an image write records

\* The last operation was a write that reached submit_single_time_commands, and
\* its callback recorded commands.
WriteRecorded ==
    /\ ret.op = "StagingGpuImage::write"
    /\ ret.step \in {NoStep, "submit_single_time_commands"}
    /\ recorded # <<>>

Allocated(calls) == Cardinality({k \in DOMAIN calls : calls[k] = "allocateCommandBuffers"})

\* C33 as stated: an image write records, inside one single-time invocation, a
\* barrier moving the target subresource to transfer-destination, then the copy
\* into a subresource within the range that barrier transitioned (so the copy's
\* level is in transfer-destination layout when the copy runs), then a barrier
\* moving the same range from transfer-destination to the caller's final layout;
\* after a successful write the level copied to is in the final layout.
C33_WriteCopiesIntoTransitionedRange ==
    WriteRecorded =>
        /\ Allocated(single_time.calls) = 1
        /\ Len(recorded) = 3
        /\ recorded[1].command.kind = "pipelineBarrier2"
        /\ recorded[1].command.newLayout = "TransferDstOptimal"
        /\ recorded[2].command.kind = "copyBufferToImage2"
        /\ recorded[2].command.dstLevel \in LevelsOf(recorded[1].command)
        /\ recorded[2].dst = "TransferDstOptimal"
        /\ recorded[3].command.kind = "pipelineBarrier2"
        /\ LevelsOf(recorded[3].command) = LevelsOf(recorded[1].command)
        /\ recorded[3].command.oldLayout = "TransferDstOptimal"
        /\ recorded[3].command.newLayout = lastImageCall.final_layout
        /\ ret.result = "Ok" =>
               image.layout[recorded[2].command.dstLevel] = lastImageCall.final_layout

----------------------------------------------------------------------------
\* The order and the layouts of mip generation

IsBarrier(c, level, newLayout) ==
    /\ c.kind = "pipelineBarrier2"
    /\ LevelsOf(c) = {level}
    /\ c.newLayout = newLayout

IsBlit(c, level) == c.kind = "blitImage2" /\ c.srcLevel = level /\ c.dstLevel = level + 1

\* C34: for every level L in 0 .. mip_levels - 2 the blit from L to L + 1 is
\* recorded after a barrier putting L + 1 in transfer-destination layout, and a
\* barrier from transfer-destination (source access transfer-write) to
\* transfer-source (destination access transfer-read) on L + 1 is recorded after
\* that blit and before every blit that reads L + 1; each blit reads a level that
\* is in transfer-source layout and writes a level that is in transfer-destination
\* layout when the device reaches it.
C34_MipChainOrderedByBarriers ==
    MipmapsRecorded =>
        /\ \A L \in 0 .. (image.mip_levels - 2) :
             \E i, j, k \in DOMAIN recorded :
                /\ i < j
                /\ j < k
                /\ IsBarrier(recorded[i].command, L + 1, "TransferDstOptimal")
                /\ IsBlit(recorded[j].command, L)
                /\ IsBarrier(recorded[k].command, L + 1, "TransferSrcOptimal")
                /\ recorded[k].command.oldLayout = "TransferDstOptimal"
                /\ recorded[k].command.srcAccess = "eTransferWrite"
                /\ recorded[k].command.dstAccess = "eTransferRead"
                /\ \A m \in DOMAIN recorded : IsBlit(recorded[m].command, L + 1) => k < m
        /\ \A m \in DOMAIN recorded :
             recorded[m].command.kind = "blitImage2" =>
                /\ \E L \in 0 .. (image.mip_levels - 2) : IsBlit(recorded[m].command, L)
                /\ recorded[m].src = "TransferSrcOptimal"
                /\ recorded[m].dst = "TransferDstOptimal"

\* Mipmaps of an image with at least three levels were recorded, the chain having
\* a blit that reads the level the blit before it wrote.
C34_Witness ==
    /\ MipmapsRecorded
    /\ image.mip_levels >= 3
    /\ \E m \in DOMAIN recorded : IsBlit(recorded[m].command, 1)

MipmapsGenerated == ret.op = "GpuImage::generate_mipmaps" /\ ret.result = "Ok"

\* C35: after a successful generate_mipmaps on an image with at least two levels,
\* every level is in the final layout the caller asked for, and the last barrier
\* recorded covers all levels, declares transfer-source as its source layout, and
\* meets every level of its range, the last one included, in transfer-source.
C35_AllLevelsReachFinalLayout ==
    MipmapsGenerated =>
        LET last == recorded[Len(recorded)]
        IN /\ image.mip_levels >= 2
           /\ \A l \in 0 .. (image.mip_levels - 1) :
                image.layout[l] = lastImageCall.final_layout
           /\ last.command.kind = "pipelineBarrier2"
           /\ LevelsOf(last.command) = 0 .. (image.mip_levels - 1)
           /\ last.command.oldLayout = "TransferSrcOptimal"
           /\ last.command.newLayout = lastImageCall.final_layout
           /\ last.actual = {"TransferSrcOptimal"}

\* Mipmaps were generated for an image with the most levels considered, and its
\* last level, which no blit reads, is in the final layout.
C35_Witness ==
    /\ MipmapsGenerated
    /\ image.mip_levels = MaxMipLevels
    /\ image.layout[image.mip_levels - 1] = lastImageCall.final_layout
    /\ recorded[Len(recorded)].actual = {"TransferSrcOptimal"}

----------------------------------------------------------------------------
\* What the single-time helper leaves behind

Count(calls, name) == Cardinality({k \in DOMAIN calls : calls[k] = name})

\* Command buffers allocated from the transient pool and not freed: begin is called
\* on exactly the command buffers whose allocation succeeded.
OutstandingCommandBuffers ==
    Count(single_time.calls, "begin") - Count(single_time.calls, "freeCommandBuffers")

\* Fences created and not destroyed: submit is called with exactly the fences
\* whose creation succeeded.
OutstandingFences ==
    Count(single_time.calls, "submit") - Count(single_time.calls, "destroyFence")

\* C36 as stated: whenever no single-time invocation is in progress, every command
\* buffer begin_single_time_commands allocated has been freed back to the transient
\* pool and every fence the helper created has been destroyed, whichever call failed.
C36_HelperFreesCommandBufferOnEveryPath ==
    single_time.pc = "idle" => OutstandingCommandBuffers = 0 /\ OutstandingFences = 0

----------------------------------------------------------------------------
\* The staging buffer of a write and the copy submitted from it, step by step

\* The writes that copy through a temporary staging buffer: GpuBuffer::write_result
\* on a DeviceLocal buffer and StagingGpuImage::write.
StagedOps == {"GpuBuffer::write", "StagingGpuImage::write"}

\* The calls of a staged write that can fail before its fence wait.
StagedFailures ==
    {"create_result", "write_result"} \cup (SubmitSteps \ {"waitForFences"}) \cup {NoStep}

\* The error a staged write returns when submit_single_time_commands fails.
StagedSubmitErr(op) ==
    IF op = "GpuBuffer::write" THEN "CouldNotWriteGpuBuffer" ELSE "CouldNotWriteGpuImage"

\* What the write returns when filling the staging buffer fails: GpuBuffer returns
\* staging_buffer.err() of a result that holds a value, StagingGpuImage the error
\* of write_result.
StagedFillErrs(op) ==
    IF op = "GpuBuffer::write" THEN UndefinedErr ELSE {"CouldNotWriteGpuBuffer"}

StagedFrame ==
    UNCHANGED <<engineVars, windowVars, selectVars, swapVars, memory_type, buffer, lastWrite,
                image, lastImageCall, recorded, surface_capabilities, swapchain_info>>

\* A staged write up to the fence wait of end_single_time_commands: the staging
\* buffer is created and filled, the copy recorded and submitted; a return on
\* the way runs the deferred vmaDestroyBuffer and, if the fence exists, destroyFence.
staged_write_submit(op, failAt, tag) ==
    /\ ~aborted
    /\ single_time.pc = "idle"
    /\ Begun < MaxSingleTimeRuns
    /\ StagedFrame
    /\ IF failAt = "create_result"
       THEN /\ ret' = Ret(op, "CouldNotCreateGpuBuffer", failAt, "failure")
            /\ UNCHANGED <<aborted, stagingBuffers, single_time>>
       ELSE IF failAt = "write_result"
       THEN IF tag = "Fatal"
            THEN /\ Fatal(op, "staging_buffer.err()")
                 /\ stagingBuffers' = stagingBuffers + 1
                 /\ UNCHANGED single_time
            ELSE /\ ret' = Ret(op, tag, failAt, "failure")
                 /\ UNCHANGED <<aborted, stagingBuffers, single_time>>
       ELSE IF failAt # NoStep
       THEN /\ ret' = Ret(op, StagedSubmitErr(op), "submit_single_time_commands", "failure")
            /\ single_time' = [single_time EXCEPT !.calls = @ \o HelperCalls(failAt)]
            /\ UNCHANGED <<aborted, stagingBuffers>>
       ELSE /\ single_time' = [single_time EXCEPT
                                 !.calls = @ \o SubSeq(HelperCallNames, 1, CallIndex("submit")),
                                 !.pc = "waiting",
                                 !.fence = "unsignaled",
                                 !.work = @ + 1,
                                 !.caller = op]
            /\ stagingBuffers' = stagingBuffers + 1
            /\ UNCHANGED <<aborted, ret>>

\* The rest of the staged write: waitForFences, freeCommandBuffers when the wait
\* succeeded, and at the return the deferred destroyFence and vmaDestroyBuffer.
staged_write_wait(w) ==
    LET op == single_time.caller
        calls == HelperCalls(IF w = "Success" THEN NoStep ELSE "waitForFences")
    IN /\ ~aborted
       /\ single_time.pc = "waiting"
       /\ op \in StagedOps
       /\ WaitForSingleTimeFence(w)
       /\ StagedFrame
       /\ UNCHANGED aborted
       /\ stagingBuffers' = stagingBuffers - 1
       /\ single_time' = [single_time EXCEPT
                            !.calls = @ \o SubSeq(calls, CallIndex("waitForFences"), Len(calls)),
                            !.pc = "idle", !.fence = "none", !.caller = "none"]
       /\ ret' = IF w = "Success" THEN Ret(op, "Ok", NoStep, "Success")
                 ELSE Ret(op, StagedSubmitErr(op), "submit_single_time_commands", "failure")

StagedInit ==
    /\ FrameLoopIdle
    /\ gpus = <<SuitableGpu>>
    /\ queue_families = SuitableGpu.families
    /\ selection = NotSelected
    /\ NoSwapchain
    /\ memory_type = "DeviceLocal"
    /\ buffer = Zeros(BufferSize)
    /\ stagingBuffers = 0
    /\ lastWrite = NoWrite
    /\ image = WrittenImage(LargestExtent, 1, "ShaderReadOnlyOptimal")
    /\ lastImageCall = NoImageCall
    /\ recorded = <<>>
    /\ single_time = NotBegun
    /\ surface_capabilities = [minImageCount |-> 1, maxImageCount |-> 0]
    /\ swapchain_info = [minImageCount |-> 0]

StagedWriteSubmits ==
    \E op \in StagedOps, failAt \in StagedFailures :
        \E tag \in (IF failAt = "write_result" THEN StagedFillErrs(op) ELSE {"none"}) :
            staged_write_submit(op, failAt, tag)

StagedWriteWaits == \E w \in CallResults : staged_write_wait(w)

StagedNext ==
    \/ StagedWriteSubmits
    \/ StagedWriteWaits
    \/ GpuCompletesSingleTime

StagedSpec == StagedInit /\ [][StagedNext]_vars

\* C37 as stated: a staging buffer is not destroyed while a submitted copy that
\* reads it has not completed: every copy still pending on the queue has its
\* staging buffer alive, on every exit path of the write.
C37_StagingBufferOutlivesItsCopy == single_time.work <= stagingBuffers

----------------------------------------------------------------------------
\* The layout GpuImage::create leaves the image in

\* C38 as stated: after GpuImage::create succeeds with a requested layout other
\* than undefined every mip level of the image is in that layout, and with the
\* undefined layout create submits no command buffer.
C38_CreateTransitionsEveryLevel ==
    /\ [](ImageCreated /\ lastImageCall.final_layout # "Undefined" =>
             \A l \in 0 .. (image.mip_levels - 1) : image.layout[l] = lastImageCall.final_layout)
    /\ [][(image = NotCreated /\ image' # NotCreated /\ lastImageCall'.final_layout = "Undefined") =>
             UNCHANGED <<recorded, single_time>>]_vars

----------------------------------------------------------------------------
\* What a failed resize leaves behind

ResizeFailed == ResizeCall /\ ret'.result # "Ok"

\* C39 as stated: when Window::resize returns an error, whichever call caused it,
\* the window's swapchain handle, extent and images are as they were and the
\* swapchain they refer to is still live, and no swapchain created by the call is
\* left live without the window referring to it.
C39_FailedResizeChangesNothing ==
    [][ResizeFailed =>
          /\ UNCHANGED <<m_swapchain, m_extent, m_image_count, m_swapchain_images>>
          /\ m_swapchain' \in swapchains'
          /\ swapchains' \subseteq swapchains]_vars

====
